---- MODULE Spec2Model ----
(***************************************************************************)
(* skillctl: registered git repositories, installed skills and per-agent   *)
(* symlinks.  The persisted record (skillctl.json), the working copies     *)
(* under repos/ and the entries of every agent's skills/ directory are the *)
(* state; every command handler is a sequence of steps, one per awaited    *)
(* side effect, so that the states between two steps (where the process    *)
(* can be killed or an error can abort the handler) are states of the      *)
(* model.                                                                  *)
(***************************************************************************)
EXTENDS Naturals, Sequences, FiniteSets

VARIABLES
    fileExists,  \* skillctl.json exists on disk
    config,      \* content of skillctl.json (SkillctlConfig)
    snapshot,    \* alias -> "absent" or the sha checked out in repos/<alias>
    skillsDir,   \* agent -> <agent>/skills exists
    entry,       \* agent -> name -> what is at <agent>/skills/<name>
    pc,          \* position of the running handler ("idle": none running)
    loc          \* local variables of the running handler

vars == <<fileExists, config, snapshot, skillsDir, entry, pc, loc>>

disk == <<fileExists, config, snapshot, skillsDir, entry>>

----------------------------------------------------------------------------
(* The small world the commands are run in.                                *)

Agents == {"a1", "a2"}

Aliases == {"r", "s"}

BadAliases == {"R!"}

SkillNames == {"x", "y"}

PathX == <<"x">>

PathY == <<"d", "y">>

Paths == {PathX, PathY}

Shas == {"sha1", "sha2"}

\* a git url: its scheme prefix ("" when it has none) and the rest
UrlPlain == <<"", "github.com/u/skills.git">>

UrlHttps == <<"https://", "github.com/u/skills.git">>

Urls == {UrlPlain, UrlHttps}

NoFlag == ""

RefFlags == {NoFlag, "dev"}

NameFlags == {NoFlag, "x"}

Times == {"t1", "t2"}

\* What the upstream repositories hold at each commit: r has x and d/y and
\* deletes d/y in sha2; s has x only.
Content(alias, sha) ==
    IF alias = "r" /\ sha = "sha1" THEN {PathX, PathY} ELSE {PathX}

----------------------------------------------------------------------------
(* JavaScript objects used as maps: entries in insertion order.            *)

Has(obj, k) == \E i \in 1..Len(obj) : obj[i][1] = k

Get(obj, k) == obj[CHOOSE i \in 1..Len(obj) : obj[i][1] = k][2]

Keys(obj) == [i \in 1..Len(obj) |-> obj[i][1]]

KeySet(obj) == {obj[i][1] : i \in 1..Len(obj)}

Put(obj, k, v) ==
    IF Has(obj, k)
    THEN [i \in 1..Len(obj) |-> IF obj[i][1] = k THEN <<k, v>> ELSE obj[i]]
    ELSE Append(obj, <<k, v>>)

Del(obj, k) == SelectSeq(obj, LAMBDA e : e[1] # k)

Includes(seq, v) == \E i \in 1..Len(seq) : seq[i] = v

Filter(seq, v) == SelectSeq(seq, LAMBDA e : e # v)

----------------------------------------------------------------------------
(* ConfigManager                                                           *)

DefaultConfig ==
    [agents |-> <<>>, default_ref |-> "main", repos |-> <<>>, skills |-> <<>>]

\* the fields of SkillctlConfig
ConfigFields == {"agents", "default_ref", "repos", "skills"}

\* load() of a file that exists: the migration adds repos when the parsed
\* object has none, and nothing else
Migrate(file) ==
    IF "repos" \in DOMAIN file THEN file
    ELSE [f \in DOMAIN file \cup {"repos"} |->
             IF f = "repos" THEN <<>> ELSE file[f]]

\* what load() returns for the file found
ReadConfig(exists, file) == IF exists THEN Migrate(file) ELSE DefaultConfig

\* load(): a missing file yields (and persists) the default configuration
Load == ReadConfig(fileExists, config)

AddSkill(cfg, name, metadata) ==
    [cfg EXCEPT !.skills = Put(cfg.skills, name, metadata)]

\* removeSkill that drops every skill of the same repository
RemoveSkillOfRepo(cfg, name) ==
    [cfg EXCEPT !.skills =
        SelectSeq(cfg.skills,
                  LAMBDA e : ~Has(cfg.skills, name)
                             \/ e[2].repo_alias # Get(cfg.skills, name).repo_alias)]

RemoveSkill(cfg, name) == [cfg EXCEPT !.skills = Del(cfg.skills, name)]

AddAgent(cfg, agentPath) ==
    IF Includes(cfg.agents, agentPath)
    THEN cfg
    ELSE [cfg EXCEPT !.agents = Append(cfg.agents, agentPath)]

RemoveAgent(cfg, agentPath) ==
    [cfg EXCEPT !.agents = Filter(cfg.agents, agentPath)]

AddRepo(cfg, alias, metadata) ==
    [cfg EXCEPT !.repos = Put(cfg.repos, alias, metadata)]

RemoveRepo(cfg, alias) == [cfg EXCEPT !.repos = Del(cfg.repos, alias)]

\* updateRepo that stores the updates in place of the record
UpdateRepoShaOnly(cfg, alias, newSha) ==
    IF Has(cfg.repos, alias)
    THEN [cfg EXCEPT !.repos =
            Put(cfg.repos, alias,
                [url |-> <<>>, ref |-> "", sha |-> newSha, added_at |-> ""])]
    ELSE cfg

\* updateRepo(alias, { sha: newSha }): the record merged with the updates
UpdateRepoSha(cfg, alias, newSha) ==
    IF Has(cfg.repos, alias)
    THEN [cfg EXCEPT !.repos =
            Put(cfg.repos, alias, [Get(cfg.repos, alias) EXCEPT !.sha = newSha])]
    ELSE cfg

\* getSkillsByRepo stopping at the first match
GetSkillsByRepoFirst(cfg, repoAlias) ==
    LET all == Keys(SelectSeq(cfg.skills, LAMBDA e : e[2].repo_alias = repoAlias))
    IN  IF Len(all) = 0 THEN all ELSE <<all[1]>>

\* getSkillsByRepo: the names, in insertion order, of the skills of a repository
GetSkillsByRepo(cfg, repoAlias) ==
    Keys(SelectSeq(cfg.skills, LAMBDA e : e[2].repo_alias = repoAlias))

----------------------------------------------------------------------------
(* Paths and the filesystem                                                *)

\* the characters of an alias, for the format check
Chars(alias) ==
    CASE alias = "r" -> <<"r">>
      [] alias = "s" -> <<"s">>
      [] alias = "R!" -> <<"R", "!">>
      [] OTHER -> <<>>

AliasChars ==
    {"a", "b", "c", "d", "e", "f", "g", "h", "i", "j", "k", "l", "m",
     "n", "o", "p", "q", "r", "s", "t", "u", "v", "w", "x", "y", "z",
     "0", "1", "2", "3", "4", "5", "6", "7", "8", "9", "-"}

\* /^[a-z0-9-]+$/.test(alias)
ValidAlias(alias) ==
    /\ Len(Chars(alias)) > 0
    /\ \A i \in 1..Len(Chars(alias)) : Chars(alias)[i] \in AliasChars

\* GitManager.normalizeGitUrl
NormalizeGitUrl(url) ==
    IF url[1] \notin {"http://", "https://", "git@", "file://"}
    THEN <<"https://", url[2]>>
    ELSE url

\* flags.ref || config.default_ref
EffectiveRef(refFlag, cfg) == IF refFlag # NoFlag THEN refFlag ELSE cfg.default_ref

\* flags.name || skillPath.split('/').pop() || 'skill'
SkillNameOf(nameFlag, skillPath) ==
    IF nameFlag # NoFlag THEN nameFlag
    ELSE IF Len(skillPath) > 0 /\ skillPath[Len(skillPath)] # ""
         THEN skillPath[Len(skillPath)]
         ELSE "skill"

\* join(join(reposDir, alias), skillPath): where a link of the skill points
SourcePath(alias, skillPath) == <<"repos", alias>> \o skillPath

Missing == [kind |-> "none", target |-> <<>>]

RegularFile == [kind |-> "file", target |-> <<>>]

RealDir == [kind |-> "dir", target |-> <<>>]

Symlink(source) == [kind |-> "link", target |-> source]

\* existsSync of a path under repos/
SourceExists(snap, source) ==
    /\ Len(source) >= 2
    /\ source[1] = "repos"
    /\ source[2] \in DOMAIN snap
    /\ snap[source[2]] # "absent"
    /\ SubSeq(source, 3, Len(source)) \in Content(source[2], snap[source[2]])

\* existsSync of <agent>/skills/<name>: follows a symlink, so a link whose
\* target is gone does not exist
EntryExists(snap, e) ==
    \/ e.kind \in {"file", "dir"}
    \/ e.kind = "link" /\ SourceExists(snap, e.target)

----------------------------------------------------------------------------
(* Handlers: locals and outcome                                            *)

\* what is on disk
DiskNow == [fileExists |-> fileExists, config |-> config, snapshot |-> snapshot,
            skillsDir |-> skillsDir, entry |-> entry]

NoLast == [op |-> "none"]

\* the command that ended just before this one, where it is remembered
Last == IF "last" \in DOMAIN loc THEN loc.last ELSE NoLast

\* what a handler finds when it starts
Pre == [fileExists |-> fileExists, config |-> config, snapshot |-> snapshot,
        skillsDir |-> skillsDir, entry |-> entry, last |-> Last]

NoLoc == [op |-> "none"]

\* a handler has thrown or returned: its outcome is kept until the next command
Finish(l, res) ==
    /\ pc' = "done"
    /\ loc' = [l EXCEPT !.res = res]

Init ==
    /\ fileExists = FALSE
    /\ config = DefaultConfig
    /\ snapshot = [a \in Aliases |-> "absent"]
    /\ skillsDir = [a \in Agents |-> TRUE]
    /\ entry = [a \in Agents |-> [n \in SkillNames |-> Missing]]
    /\ pc = "idle"
    /\ loc = NoLoc

----------------------------------------------------------------------------
(* SymlinkManager                                                          *)

\* createSymlink up to the removal of what is at the target: [ok, entry]
\*   existsSync(target) false: nothing is removed (also a dangling link stays)
\*   a symlink or a file: unlink removes it; a real directory: unlink throws
ClearTarget(snap, e) ==
    IF ~EntryExists(snap, e) THEN [ok |-> TRUE, entry |-> e]
    ELSE IF e.kind = "dir" THEN [ok |-> FALSE, entry |-> e]
    ELSE [ok |-> TRUE, entry |-> Missing]

\* symlink(source, target, 'dir'): fails (EEXIST) when the name is taken
MakeSymlink(e, source) ==
    IF e.kind = "none" THEN [ok |-> TRUE, entry |-> Symlink(source)]
    ELSE [ok |-> FALSE, entry |-> e]

\* removeSymlink without the readlink test: unlink removes a file as well
RemoveSymlinkNoReadlink(snap, e) ==
    IF EntryExists(snap, e) /\ e.kind \in {"link", "file"} THEN Missing ELSE e

\* removeSymlink: only what existsSync sees and readlink accepts is unlinked
RemoveSymlink(snap, e) ==
    IF EntryExists(snap, e) /\ e.kind = "link" THEN Missing ELSE e

\* locals of a handler that walks skills (names[k]) and agents (agents[i]);
\* warned: removeSymlink has caught an unlink error; failed: the <<name,
\* agent>> pairs whose symlink or unlink call has thrown
LinkLoc(op, alias, path, agent, names, sources, agents) ==
    [op |-> op, res |-> "", alias |-> alias, path |-> path, agent |-> agent,
     names |-> names, sources |-> sources, agents |-> agents,
     k |-> 1, i |-> 1, warned |-> FALSE, failed |-> {}, pre |-> Pre]

\* where a handler continues once the agents of skill names[k] are done
AfterAgents(l) ==
    CASE l.op = "skill_install" -> [pc |-> "inst_save", loc |-> l]
      [] l.op = "skill_remove" -> [pc |-> "srm_save", loc |-> l]
      [] l.op = "repo_remove" -> [pc |-> "rrm_rmskill", loc |-> l]
      [] l.op = "agent_add" ->
            IF l.k < Len(l.names)
            THEN [pc |-> "project", loc |-> [l EXCEPT !.k = l.k + 1, !.i = 1]]
            ELSE [pc |-> "done", loc |-> [l EXCEPT !.res = "ok"]]
      [] l.op = "agent_remove" ->
            IF l.k < Len(l.names)
            THEN [pc |-> "retract", loc |-> [l EXCEPT !.k = l.k + 1, !.i = 1]]
            ELSE [pc |-> "arm_save", loc |-> l]

\* the loop over the agents left after its first agent
NextAgentFirstOnly(loopPc, l) == AfterAgents(l)

\* for (const agent of agents): the next agent, or the end of the loop
NextAgent(loopPc, l) ==
    IF l.i < Len(l.agents)
    THEN [pc |-> loopPc, loc |-> [l EXCEPT !.i = l.i + 1]]
    ELSE AfterAgents(l)

\* entering the loop over the agents (which may be empty)
EnterAgents(loopPc, l) ==
    IF Len(l.agents) = 0 THEN AfterAgents(l)
    ELSE [pc |-> loopPc, loc |-> [l EXCEPT !.i = 1]]

Goto(to) ==
    /\ pc' = to.pc
    /\ loc' = to.loc

\* createSymlinksForAgents that leaves its loop at the first agent without
\* a skills directory
ProjectAgentStopsAtSkip(ioError) ==
    /\ pc = "project"
    /\ LET agent == loc.agents[loc.i]
           name == loc.names[loc.k]
           cleared == ClearTarget(snapshot, entry[agent][name])
       IN  IF ~skillsDir[agent]
           THEN /\ Goto(AfterAgents(loc))
                /\ UNCHANGED disk
           ELSE IF ~SourceExists(snapshot, loc.sources[loc.k])
           THEN /\ Finish(loc, "source_missing")
                /\ UNCHANGED disk
           ELSE IF ~cleared.ok \/ (ioError /\ EntryExists(snapshot, entry[agent][name]))
           THEN /\ Finish([loc EXCEPT !.failed = @ \cup {<<name, agent>>}],
                          "io_error")
                /\ UNCHANGED disk
           ELSE /\ entry' = [entry EXCEPT ![agent][name] = cleared.entry]
                /\ pc' = "symlink"
                /\ UNCHANGED <<fileExists, config, snapshot, skillsDir, loc>>

\* createSymlinksForAgents, one agent: the skills directory check and
\* createSymlink up to the removal of the existing target
ProjectAgent(ioError) ==
    /\ pc = "project"
    /\ LET agent == loc.agents[loc.i]
           name == loc.names[loc.k]
           cleared == ClearTarget(snapshot, entry[agent][name])
       IN  IF ~skillsDir[agent]
           THEN /\ Goto(NextAgent("project", loc))
                /\ UNCHANGED disk
           ELSE IF ~SourceExists(snapshot, loc.sources[loc.k])
           THEN /\ Finish(loc, "source_missing")
                /\ UNCHANGED disk
           ELSE IF ~cleared.ok \/ (ioError /\ EntryExists(snapshot, entry[agent][name]))
           THEN /\ Finish([loc EXCEPT !.failed = @ \cup {<<name, agent>>}],
                          "io_error")
                /\ UNCHANGED disk
           ELSE /\ entry' = [entry EXCEPT ![agent][name] = cleared.entry]
                /\ pc' = "symlink"
                /\ UNCHANGED <<fileExists, config, snapshot, skillsDir, loc>>

\* an install that writes the Skill record as soon as the first link is made
ProjectSymlinkRecording(ioError) ==
    /\ pc = "symlink"
    /\ LET agent == loc.agents[loc.i]
           name == loc.names[loc.k]
           made == MakeSymlink(entry[agent][name], loc.sources[loc.k])
       IN  IF ~made.ok \/ ioError
           THEN /\ Finish([loc EXCEPT !.failed = @ \cup {<<name, agent>>}],
                          "io_error")
                /\ UNCHANGED disk
           ELSE /\ entry' = [entry EXCEPT ![agent][name] = made.entry]
                /\ config' = IF loc.op = "skill_install"
                             THEN [config EXCEPT !.skills =
                                      Put(@, name, [repo_alias |-> loc.alias,
                                                    path |-> loc.path,
                                                    installed_at |-> "t1"])]
                             ELSE config
                /\ Goto(NextAgent("project", loc))
                /\ UNCHANGED <<fileExists, snapshot, skillsDir>>

\* createSymlink: the symlink call
ProjectSymlink(ioError) ==
    /\ pc = "symlink"
    /\ LET agent == loc.agents[loc.i]
           name == loc.names[loc.k]
           made == MakeSymlink(entry[agent][name], loc.sources[loc.k])
       IN  IF ~made.ok \/ ioError
           THEN /\ Finish([loc EXCEPT !.failed = @ \cup {<<name, agent>>}],
                          "io_error")
                /\ UNCHANGED disk
           ELSE /\ entry' = [entry EXCEPT ![agent][name] = made.entry]
                /\ Goto(NextAgent("project", loc))
                /\ UNCHANGED <<fileExists, config, snapshot, skillsDir>>

\* a retraction that takes the link of the skill away from every agent
RetractAgentEverywhere(ioError) ==
    /\ pc = "retract"
    /\ LET name == loc.names[loc.k]
       IN  /\ entry' = [a \in Agents |->
                          [entry[a] EXCEPT ![name] = RemoveSymlink(snapshot, @)]]
           /\ Goto(NextAgent("retract", loc))
           /\ UNCHANGED <<fileExists, config, snapshot, skillsDir>>

\* removeSymlinksForAgents, one agent; an unlink error is caught and warned
RetractAgent(ioError) ==
    /\ pc = "retract"
    /\ LET agent == loc.agents[loc.i]
           name == loc.names[loc.k]
       IN  /\ entry' = [entry EXCEPT ![agent][name] =
                          IF ioError THEN @ ELSE RemoveSymlink(snapshot, @)]
           /\ LET thrown == ioError /\ RemoveSymlink(snapshot, entry[agent][name])
                                         # entry[agent][name]
              IN  Goto(NextAgent("retract",
                     [loc EXCEPT !.warned = @ \/ thrown,
                                 !.failed = IF thrown
                                            THEN @ \cup {<<name, agent>>}
                                            ELSE @]))
           /\ UNCHANGED <<fileExists, config, snapshot, skillsDir>>

----------------------------------------------------------------------------
(* repo add <alias> <git-url> [--ref <branch>]                             *)


RepoAddLoc(alias, url, refFlag, ref) ==
    [op |-> "repo_add", res |-> "", alias |-> alias, url |-> url,
     refFlag |-> refFlag, ref |-> ref, gitUrl |-> <<>>, sha |-> "",
     pre |-> Pre]

\* repo add without the check for a registered alias
RepoAddStartNoCheck(alias, url, refFlag) ==
    /\ pc = "idle"
    /\ IF ~ValidAlias(alias)
       THEN /\ Finish(RepoAddLoc(alias, url, refFlag, ""), "invalid_alias")
            /\ UNCHANGED disk
       ELSE LET cfg == Load IN
            /\ fileExists' = TRUE
            /\ config' = cfg
            /\ UNCHANGED <<snapshot, skillsDir, entry>>
            /\ pc' = "add_rm"
            /\ loc' = RepoAddLoc(alias, url, refFlag, EffectiveRef(refFlag, cfg))

RepoAddStart(alias, url, refFlag) ==
    /\ pc = "idle"
    /\ IF ~ValidAlias(alias)
       THEN /\ Finish(RepoAddLoc(alias, url, refFlag, ""), "invalid_alias")
            /\ UNCHANGED disk
       ELSE LET cfg == Load IN
            /\ fileExists' = TRUE
            /\ config' = cfg
            /\ UNCHANGED <<snapshot, skillsDir, entry>>
            /\ IF Has(cfg.repos, alias)
               THEN Finish(RepoAddLoc(alias, url, refFlag,
                                      EffectiveRef(refFlag, cfg)),
                           "already_registered")
               ELSE /\ pc' = "add_rm"
                    /\ loc' = RepoAddLoc(alias, url, refFlag,
                                         EffectiveRef(refFlag, cfg))

\* GitManager.clone: clean up the existing directory
CloneRm ==
    /\ pc = "add_rm"
    /\ snapshot' = [snapshot EXCEPT ![loc.alias] = "absent"]
    /\ pc' = "add_clone"
    /\ loc' = [loc EXCEPT !.gitUrl = NormalizeGitUrl(loc.url)]
    /\ UNCHANGED <<fileExists, config, skillsDir, entry>>

\* GitManager.clone: git clone succeeds and HEAD is sha
CloneOk(sha) ==
    /\ pc = "add_clone"
    /\ snapshot' = [snapshot EXCEPT ![loc.alias] = sha]
    /\ pc' = "add_save"
    /\ loc' = [loc EXCEPT !.sha = sha]
    /\ UNCHANGED <<fileExists, config, skillsDir, entry>>

\* a failed clone that still registers the repository
CloneFailRegisters ==
    /\ pc = "add_clone"
    /\ config' = AddRepo(Load, loc.alias, [url |-> loc.url, ref |-> loc.ref,
                                           sha |-> "", added_at |-> "t1"])
    /\ fileExists' = TRUE
    /\ Finish(loc, "clone_failed")
    /\ UNCHANGED <<snapshot, skillsDir, entry>>

\* GitManager.clone: git fails, the handler rethrows
CloneFail ==
    /\ pc = "add_clone"
    /\ Finish(loc, "clone_failed")
    /\ UNCHANGED disk

\* the metadata with the url that was handed to git
RepoMetadataNormalized(url, ref, sha, now) ==
    [url |-> NormalizeGitUrl(url), ref |-> ref, sha |-> sha, added_at |-> now]

RepoMetadata(url, ref, sha, now) ==
    [url |-> url, ref |-> ref, sha |-> sha, added_at |-> now]

RepoAddSave(now) ==
    /\ pc = "add_save"
    /\ config' = AddRepo(Load, loc.alias,
                         RepoMetadata(loc.url, loc.ref, loc.sha, now))
    /\ fileExists' = TRUE
    /\ Finish(loc, "ok")
    /\ UNCHANGED <<snapshot, skillsDir, entry>>

----------------------------------------------------------------------------
(* skill install <repo-alias> <skill-path> [--name <custom-name>]          *)

SkillMetadata(repoAlias, skillPath, now) ==
    [repo_alias |-> repoAlias, path |-> skillPath, installed_at |-> now]

\* skill install with the name checked among the skills of the same
\* repository only
SkillInstallStartPerRepo(repoAlias, skillPath, nameFlag) ==
    /\ pc = "idle"
    /\ LET cfg == Load
           skillName == SkillNameOf(nameFlag, skillPath)
           source == SourcePath(repoAlias, skillPath)
           l == LinkLoc("skill_install", repoAlias, skillPath, "",
                        <<skillName>>, <<source>>, cfg.agents)
       IN  /\ fileExists' = TRUE
           /\ config' = cfg
           /\ UNCHANGED <<snapshot, skillsDir, entry>>
           /\ IF ~Has(cfg.repos, repoAlias)
              THEN Finish(l, "repo_not_registered")
              ELSE IF Has(cfg.skills, skillName)
                      /\ Get(cfg.skills, skillName).repo_alias = repoAlias
              THEN Finish(l, "already_installed")
              ELSE IF ~SourceExists(snapshot, source)
              THEN Finish(l, "path_not_found")
              ELSE IF Len(cfg.agents) = 0
              THEN Goto([pc |-> "inst_save", loc |-> l])
              ELSE Goto([pc |-> "project", loc |-> l])

SkillInstallStart(repoAlias, skillPath, nameFlag) ==
    /\ pc = "idle"
    /\ LET cfg == Load
           skillName == SkillNameOf(nameFlag, skillPath)
           source == SourcePath(repoAlias, skillPath)
           l == LinkLoc("skill_install", repoAlias, skillPath, "",
                        <<skillName>>, <<source>>, cfg.agents)
       IN  /\ fileExists' = TRUE
           /\ config' = cfg
           /\ UNCHANGED <<snapshot, skillsDir, entry>>
           /\ IF ~Has(cfg.repos, repoAlias)
              THEN Finish(l, "repo_not_registered")
              ELSE IF Has(cfg.skills, skillName)
              THEN Finish(l, "already_installed")
              ELSE IF ~SourceExists(snapshot, source)
              THEN Finish(l, "path_not_found")
              ELSE IF Len(cfg.agents) = 0
              THEN Goto([pc |-> "inst_save", loc |-> l])
              ELSE Goto([pc |-> "project", loc |-> l])

\* an install that records the skill only when it has projected it
SkillInstallSaveLinked(now) ==
    /\ pc = "inst_save"
    /\ config' = IF Len(loc.agents) = 0 THEN Load
                 ELSE AddSkill(Load, loc.names[1],
                               SkillMetadata(loc.alias, loc.path, now))
    /\ fileExists' = TRUE
    /\ Finish(loc, "ok")
    /\ UNCHANGED <<snapshot, skillsDir, entry>>

\* configManager.addSkill(skillName, { repo_alias, path, installed_at })
SkillInstallSave(now) ==
    /\ pc = "inst_save"
    /\ config' = AddSkill(Load, loc.names[1],
                          SkillMetadata(loc.alias, loc.path, now))
    /\ fileExists' = TRUE
    /\ Finish(loc, "ok")
    /\ UNCHANGED <<snapshot, skillsDir, entry>>

----------------------------------------------------------------------------
(* skill remove <skill-name>                                               *)

\* skill remove that deletes the Skill record before it retracts the links
SkillRemoveStartEager(skillName, confirmed) ==
    /\ pc = "idle"
    /\ LET cfg == Load
           l == LinkLoc("skill_remove", "", <<>>, "",
                        <<skillName>>, <<>>, cfg.agents)
       IN  /\ fileExists' = TRUE
           /\ config' = IF Has(cfg.skills, skillName) /\ confirmed
                        THEN RemoveSkill(cfg, skillName) ELSE cfg
           /\ UNCHANGED <<snapshot, skillsDir, entry>>
           /\ IF ~Has(cfg.skills, skillName)
              THEN Finish(l, "not_installed")
              ELSE IF ~confirmed
              THEN Finish(l, "cancelled")
              ELSE Goto(EnterAgents("retract", l))

SkillRemoveStart(skillName, confirmed) ==
    /\ pc = "idle"
    /\ LET cfg == Load
           l == LinkLoc("skill_remove", "", <<>>, "",
                        <<skillName>>, <<>>, cfg.agents)
       IN  /\ fileExists' = TRUE
           /\ config' = cfg
           /\ UNCHANGED <<snapshot, skillsDir, entry>>
           /\ IF ~Has(cfg.skills, skillName)
              THEN Finish(l, "not_installed")
              ELSE IF ~confirmed
              THEN Finish(l, "cancelled")
              ELSE Goto(EnterAgents("retract", l))

SkillRemoveSave ==
    /\ pc = "srm_save"
    /\ config' = RemoveSkill(Load, loc.names[1])
    /\ fileExists' = TRUE
    /\ Finish(loc, "ok")
    /\ UNCHANGED <<snapshot, skillsDir, entry>>

----------------------------------------------------------------------------
(* repo remove <alias>                                                     *)

\* repo remove that drops the record before it asks
RepoRemoveStartEager(alias, confirmed) ==
    /\ pc = "idle"
    /\ LET cfg == Load
           skills == GetSkillsByRepo(cfg, alias)
           l == LinkLoc("repo_remove", alias, <<>>, "", skills, <<>>, cfg.agents)
       IN  /\ fileExists' = TRUE
           /\ UNCHANGED <<snapshot, skillsDir, entry>>
           /\ IF ~Has(cfg.repos, alias)
              THEN config' = cfg /\ Finish(l, "not_registered")
              ELSE IF ~confirmed
              THEN config' = RemoveRepo(cfg, alias) /\ Finish(l, "cancelled")
              ELSE IF Len(skills) > 0
              THEN config' = cfg /\ Goto(EnterAgents("retract", l))
              ELSE config' = cfg /\ Goto([pc |-> "rrm_rmdir", loc |-> l])

RepoRemoveStart(alias, confirmed) ==
    /\ pc = "idle"
    /\ LET cfg == Load
           skills == GetSkillsByRepo(cfg, alias)
           l == LinkLoc("repo_remove", alias, <<>>, "", skills, <<>>, cfg.agents)
       IN  /\ fileExists' = TRUE
           /\ config' = cfg
           /\ UNCHANGED <<snapshot, skillsDir, entry>>
           /\ IF ~Has(cfg.repos, alias)
              THEN Finish(l, "not_registered")
              ELSE IF ~confirmed
              THEN Finish(l, "cancelled")
              ELSE IF Len(skills) > 0
              THEN Goto(EnterAgents("retract", l))
              ELSE Goto([pc |-> "rrm_rmdir", loc |-> l])

\* configManager.removeSkill(skillName), then the next dependent skill
RepoRemoveSkill ==
    /\ pc = "rrm_rmskill"
    /\ config' = RemoveSkill(Load, loc.names[loc.k])
    /\ fileExists' = TRUE
    /\ IF loc.k < Len(loc.names)
       THEN Goto(EnterAgents("retract", [loc EXCEPT !.k = loc.k + 1]))
       ELSE Goto([pc |-> "rrm_rmdir", loc |-> loc])
    /\ UNCHANGED <<snapshot, skillsDir, entry>>

\* rm(repoDir, { recursive: true, force: true })
RepoRemoveDir ==
    /\ pc = "rrm_rmdir"
    /\ snapshot' = [snapshot EXCEPT ![loc.alias] = "absent"]
    /\ pc' = "rrm_rmrepo"
    /\ UNCHANGED <<fileExists, config, skillsDir, entry, loc>>

RepoRemoveRecord ==
    /\ pc = "rrm_rmrepo"
    /\ config' = RemoveRepo(Load, loc.alias)
    /\ fileExists' = TRUE
    /\ Finish(loc, "ok")
    /\ UNCHANGED <<snapshot, skillsDir, entry>>

----------------------------------------------------------------------------
(* repo update <alias>                                                     *)

RepoUpdateLoc(alias, repo) ==
    [op |-> "repo_update", res |-> "", alias |-> alias, repo |-> repo,
     sha |-> "", pre |-> Pre]

RepoUpdateStart(alias) ==
    /\ pc = "idle"
    /\ LET cfg == Load IN
       /\ fileExists' = TRUE
       /\ config' = cfg
       /\ UNCHANGED <<snapshot, skillsDir, entry>>
       /\ IF ~Has(cfg.repos, alias)
          THEN Finish(RepoUpdateLoc(alias, <<>>), "not_registered")
          ELSE IF snapshot[alias] = "absent"
          THEN Finish(RepoUpdateLoc(alias, Get(cfg.repos, alias)), "no_directory")
          ELSE Goto([pc |-> "upd_git",
                     loc |-> RepoUpdateLoc(alias, Get(cfg.repos, alias))])

\* an update that writes the sha it got without comparing it
GitUpdateOkNoCompare(newSha) ==
    /\ pc = "upd_git"
    /\ snapshot' = [snapshot EXCEPT ![loc.alias] = newSha]
    /\ Goto([pc |-> "upd_save", loc |-> [loc EXCEPT !.sha = newSha]])
    /\ UNCHANGED <<fileExists, config, skillsDir, entry>>

\* GitManager.update succeeds: the working copy is at newSha
GitUpdateOk(newSha) ==
    /\ pc = "upd_git"
    /\ snapshot' = [snapshot EXCEPT ![loc.alias] = newSha]
    /\ IF newSha = loc.repo.sha
       THEN Finish([loc EXCEPT !.sha = newSha], "unchanged")
       ELSE Goto([pc |-> "upd_save", loc |-> [loc EXCEPT !.sha = newSha]])
    /\ UNCHANGED <<fileExists, config, skillsDir, entry>>

\* GitManager.update throws: a git command failed, before or after the
\* working copy moved
GitUpdateFail(left) ==
    /\ pc = "upd_git"
    /\ snapshot' = [snapshot EXCEPT ![loc.alias] = left]
    /\ Finish(loc, "update_failed")
    /\ UNCHANGED <<fileExists, config, skillsDir, entry>>

RepoUpdateSave ==
    /\ pc = "upd_save"
    /\ config' = UpdateRepoSha(Load, loc.alias, loc.sha)
    /\ fileExists' = TRUE
    /\ Finish(loc, "ok")
    /\ UNCHANGED <<snapshot, skillsDir, entry>>

----------------------------------------------------------------------------
(* two repo update <alias> processes at the same time                      *)

\* the two processes
Procs == {1, 2}

\* locals of the two handlers from their call of updateRepo on: at is where
\* each one is in updateRepo, cfg the State it has loaded; events: the loads
\* and saves in the order they took place
TwoUpdatesLoc(aliasOne, shaOne, aliasTwo, shaTwo) ==
    [op |-> "two_updates", res |-> "", alias |-> "",
     procs |-> <<[at |-> "load", alias |-> aliasOne, sha |-> shaOne, cfg |-> <<>>],
                 [at |-> "load", alias |-> aliasTwo, sha |-> shaTwo, cfg |-> <<>>]>>,
     events |-> <<>>, pre |-> Pre]

\* two repo update handlers, each for a registered repository of its own:
\* getRepo has found the record and gitManager.update has returned a sha
\* that is not the stored one, so each goes on to updateRepo
TwoUpdatesStart(aliasOne, shaOne, aliasTwo, shaTwo) ==
    /\ pc = "idle"
    /\ aliasOne # aliasTwo
    /\ LET cfg == Load IN
       /\ Has(cfg.repos, aliasOne) /\ Has(cfg.repos, aliasTwo)
       /\ snapshot[aliasOne] # "absent" /\ snapshot[aliasTwo] # "absent"
       /\ shaOne # Get(cfg.repos, aliasOne).sha
       /\ shaTwo # Get(cfg.repos, aliasTwo).sha
       /\ fileExists' = TRUE
       /\ config' = cfg
       /\ snapshot' = [snapshot EXCEPT ![aliasOne] = shaOne, ![aliasTwo] = shaTwo]
       /\ Goto([pc |-> "two",
                loc |-> TwoUpdatesLoc(aliasOne, shaOne, aliasTwo, shaTwo)])
    /\ UNCHANGED <<skillsDir, entry>>

\* updateRepo: const config = await this.load()
UpdateRepoLoad(p) ==
    /\ pc = "two"
    /\ loc.procs[p].at = "load"
    /\ fileExists' = TRUE
    /\ config' = Load
    /\ loc' = [loc EXCEPT !.procs[p].at = "save",
                          !.procs[p].cfg = Load,
                          !.events = Append(@, <<p, "load">>)]
    /\ UNCHANGED <<snapshot, skillsDir, entry, pc>>

\* an updateRepo that reads the file again when it writes
UpdateRepoSaveFresh(p) ==
    /\ pc = "two"
    /\ loc.procs[p].at = "save"
    /\ config' = UpdateRepoSha(Load, loc.procs[p].alias, loc.procs[p].sha)
    /\ LET l == [loc EXCEPT !.procs[p].at = "done",
                            !.events = Append(@, <<p, "save">>)]
       IN  IF \A q \in Procs : l.procs[q].at = "done"
           THEN Finish(l, "ok")
           ELSE pc' = pc /\ loc' = l
    /\ UNCHANGED <<fileExists, snapshot, skillsDir, entry>>

\* updateRepo: the record of the loaded State is merged with the updates
\* and the loaded State is saved, if it has the record
UpdateRepoSave(p) ==
    /\ pc = "two"
    /\ loc.procs[p].at = "save"
    /\ config' = IF Has(loc.procs[p].cfg.repos, loc.procs[p].alias)
                 THEN UpdateRepoSha(loc.procs[p].cfg, loc.procs[p].alias,
                                    loc.procs[p].sha)
                 ELSE config
    /\ LET l == [loc EXCEPT !.procs[p].at = "done",
                            !.events = Append(@, <<p, "save">>)]
       IN  IF \A q \in Procs : l.procs[q].at = "done"
           THEN Finish(l, "ok")
           ELSE pc' = pc /\ loc' = l
    /\ UNCHANGED <<fileExists, snapshot, skillsDir, entry>>

----------------------------------------------------------------------------
(* repo update --all                                                       *)

\* repos: Object.entries(config.repos) as read at the start; updated,
\* unchanged, failed: the three counters; tried: the aliases whose update
\* was attempted, in order, outcomes: how each attempt ended, and returned:
\* what gitManager.update returned to each ("" when it threw)
RepoUpdateAllLoc(repos) ==
    [op |-> "repo_update_all", res |-> "", alias |-> "", repos |-> repos,
     k |-> 1, sha |-> "", updated |-> 0, unchanged |-> 0, failed |-> 0,
     tried |-> <<>>, outcomes |-> <<>>, returned |-> <<>>, pre |-> Pre]

\* a loop over repos that ends after its first failure
NextEntryUntilFailure(l) ==
    IF l.k < Len(l.repos) /\ l.failed = 0
    THEN [pc |-> "all_git", loc |-> [l EXCEPT !.k = l.k + 1]]
    ELSE [pc |-> "done", loc |-> [l EXCEPT !.res = "ok"]]

\* the loop over repos goes to its next entry, or the summary is printed
NextEntry(l) ==
    IF l.k < Len(l.repos)
    THEN [pc |-> "all_git", loc |-> [l EXCEPT !.k = l.k + 1]]
    ELSE [pc |-> "done", loc |-> [l EXCEPT !.res = "ok"]]

RepoUpdateAllStart ==
    /\ pc = "idle"
    /\ LET cfg == Load IN
       /\ fileExists' = TRUE
       /\ config' = cfg
       /\ UNCHANGED <<snapshot, skillsDir, entry>>
       /\ IF Len(cfg.repos) = 0
          THEN Finish(RepoUpdateAllLoc(cfg.repos), "ok")
          ELSE Goto([pc |-> "all_git", loc |-> RepoUpdateAllLoc(cfg.repos)])

\* gitManager.update of repos[k] returns newSha
UpdateAllGitOk(newSha) ==
    /\ pc = "all_git"
    /\ LET alias == loc.repos[loc.k][1]
           repo == loc.repos[loc.k][2]
           l == [loc EXCEPT !.tried = Append(@, alias), !.sha = newSha,
                            !.returned = Append(@, newSha)]
       IN  /\ snapshot[alias] # "absent"
           /\ snapshot' = [snapshot EXCEPT ![alias] = newSha]
           /\ IF newSha = repo.sha
              THEN Goto(NextEntry([l EXCEPT !.unchanged = @ + 1,
                                            !.outcomes = Append(@, "unchanged")]))
              ELSE Goto([pc |-> "all_save", loc |-> l])
    /\ UNCHANGED <<fileExists, config, skillsDir, entry>>

\* a failed update of repos[k] that stores the sha the working copy is left at
UpdateAllGitFailStores(left) ==
    /\ pc = "all_git"
    /\ LET alias == loc.repos[loc.k][1] IN
       /\ snapshot' = IF snapshot[alias] = "absent" THEN snapshot
                      ELSE [snapshot EXCEPT ![alias] = left]
       /\ config' = UpdateRepoSha(Load, alias, left)
       /\ Goto(NextEntry([loc EXCEPT !.tried = Append(@, alias),
                                     !.failed = @ + 1,
                                     !.returned = Append(@, ""),
                                     !.outcomes = Append(@, "failed")]))
    /\ UNCHANGED <<fileExists, skillsDir, entry>>

\* gitManager.update of repos[k] throws (no directory, or a git command
\* failed before or after the working copy moved); the catch counts it
UpdateAllGitFail(left) ==
    /\ pc = "all_git"
    /\ LET alias == loc.repos[loc.k][1] IN
       /\ snapshot' = IF snapshot[alias] = "absent" THEN snapshot
                      ELSE [snapshot EXCEPT ![alias] = left]
       /\ Goto(NextEntry([loc EXCEPT !.tried = Append(@, alias),
                                     !.failed = @ + 1,
                                     !.returned = Append(@, ""),
                                     !.outcomes = Append(@, "failed")]))
    /\ UNCHANGED <<fileExists, config, skillsDir, entry>>

\* an update --all that keeps the State it read at its start and saves it
\* with the new sha, instead of loading it again
UpdateAllSaveCached ==
    /\ pc = "all_save"
    /\ config' = UpdateRepoSha(loc.pre.config, loc.repos[loc.k][1], loc.sha)
    /\ fileExists' = TRUE
    /\ Goto(NextEntry([loc EXCEPT !.updated = @ + 1,
                                  !.outcomes = Append(@, "updated")]))
    /\ UNCHANGED <<snapshot, skillsDir, entry>>

\* configManager.updateRepo(alias, { sha: newSha })
UpdateAllSave ==
    /\ pc = "all_save"
    /\ config' = UpdateRepoSha(Load, loc.repos[loc.k][1], loc.sha)
    /\ fileExists' = TRUE
    /\ Goto(NextEntry([loc EXCEPT !.updated = @ + 1,
                                  !.outcomes = Append(@, "updated")]))
    /\ UNCHANGED <<snapshot, skillsDir, entry>>

----------------------------------------------------------------------------
(* agent add <path>                                                        *)

\* join(join(reposDir, skill.repo_alias), skill.path) of every installed skill
SkillSources(cfg) ==
    [k \in 1..Len(cfg.skills) |->
        SourcePath(cfg.skills[k][2].repo_alias, cfg.skills[k][2].path)]

\* agent add without the check for a configured path
AgentAddStartNoCheck(agentPath) ==
    /\ pc = "idle"
    /\ IF ~skillsDir[agentPath]
       THEN /\ Finish(LinkLoc("agent_add", "", <<>>, agentPath,
                              <<>>, <<>>, <<agentPath>>), "no_skills_dir")
            /\ UNCHANGED disk
       ELSE LET cfg == Load
                l == LinkLoc("agent_add", "", <<>>, agentPath,
                             Keys(cfg.skills), SkillSources(cfg), <<agentPath>>)
            IN  /\ fileExists' = TRUE
                /\ config' = cfg
                /\ UNCHANGED <<snapshot, skillsDir, entry>>
                /\ Goto([pc |-> "aadd_save", loc |-> l])

AgentAddStart(agentPath) ==
    /\ pc = "idle"
    /\ IF ~skillsDir[agentPath]
       THEN /\ Finish(LinkLoc("agent_add", "", <<>>, agentPath,
                              <<>>, <<>>, <<agentPath>>), "no_skills_dir")
            /\ UNCHANGED disk
       ELSE LET cfg == Load
                l == LinkLoc("agent_add", "", <<>>, agentPath,
                             Keys(cfg.skills), SkillSources(cfg), <<agentPath>>)
            IN  /\ fileExists' = TRUE
                /\ config' = cfg
                /\ UNCHANGED <<snapshot, skillsDir, entry>>
                /\ IF Includes(cfg.agents, agentPath)
                   THEN Finish(l, "already_configured")
                   ELSE Goto([pc |-> "aadd_save", loc |-> l])

\* agent add that goes on to the projection without writing the record
AgentAddSaveSkipped ==
    /\ pc = "aadd_save"
    /\ config' = Load
    /\ fileExists' = TRUE
    /\ IF Len(loc.names) = 0
       THEN Finish(loc, "ok")
       ELSE Goto([pc |-> "project", loc |-> loc])
    /\ UNCHANGED <<snapshot, skillsDir, entry>>

\* configManager.addAgent(agentPath), then the loop over the installed skills
AgentAddSave ==
    /\ pc = "aadd_save"
    /\ config' = AddAgent(Load, loc.agent)
    /\ fileExists' = TRUE
    /\ IF Len(loc.names) = 0
       THEN Finish(loc, "ok")
       ELSE Goto([pc |-> "project", loc |-> loc])
    /\ UNCHANGED <<snapshot, skillsDir, entry>>

----------------------------------------------------------------------------
(* agent remove <path>                                                     *)

AgentRemoveStart(agentPath, confirmed) ==
    /\ pc = "idle"
    /\ LET cfg == Load
           l == LinkLoc("agent_remove", "", <<>>, agentPath,
                        Keys(cfg.skills), <<>>, <<agentPath>>)
       IN  /\ fileExists' = TRUE
           /\ config' = cfg
           /\ UNCHANGED <<snapshot, skillsDir, entry>>
           /\ IF ~Includes(cfg.agents, agentPath)
              THEN Finish(l, "not_found")
              ELSE IF ~confirmed
              THEN Finish(l, "cancelled")
              ELSE IF Len(l.names) = 0
              THEN Goto([pc |-> "arm_save", loc |-> l])
              ELSE Goto([pc |-> "retract", loc |-> l])

AgentRemoveSave ==
    /\ pc = "arm_save"
    /\ config' = RemoveAgent(Load, loc.agent)
    /\ fileExists' = TRUE
    /\ Finish(loc, "ok")
    /\ UNCHANGED <<snapshot, skillsDir, entry>>

----------------------------------------------------------------------------
(* config                                                                  *)

\* config without the write that load() does
ConfigShowUnsaved ==
    /\ pc = "idle"
    /\ LET cfg == Load
           l == [op |-> "config", res |-> "", alias |-> "", returned |-> cfg,
                 pre |-> Pre]
       IN  Finish(l, IF {"agents", "skills"} \subseteq DOMAIN cfg
                     THEN "ok" ELSE "type_error")
    /\ UNCHANGED disk

\* load() (which saves what it returns when the file was missing or had no
\* repos; the file is what it returns otherwise), then the listing, which
\* reads agents.length and Object.keys(skills)
ConfigShow ==
    /\ pc = "idle"
    /\ LET cfg == Load
           l == [op |-> "config", res |-> "", alias |-> "", returned |-> cfg,
                 pre |-> Pre]
       IN  /\ fileExists' = TRUE
           /\ config' = cfg
           /\ Finish(l, IF {"agents", "skills"} \subseteq DOMAIN cfg
                        THEN "ok" ELSE "type_error")
    /\ UNCHANGED <<snapshot, skillsDir, entry>>

----------------------------------------------------------------------------
(* What the user does to an agent directory between two commands           *)

UserRemovesSkillsDir(agent) ==
    /\ pc = "idle"
    /\ skillsDir[agent]
    /\ skillsDir' = [skillsDir EXCEPT ![agent] = FALSE]
    /\ entry' = [entry EXCEPT ![agent] = [n \in SkillNames |-> Missing]]
    /\ UNCHANGED <<fileExists, config, snapshot, pc, loc>>

UserMakesSkillsDir(agent) ==
    /\ pc = "idle"
    /\ ~skillsDir[agent]
    /\ skillsDir' = [skillsDir EXCEPT ![agent] = TRUE]
    /\ UNCHANGED <<fileExists, config, snapshot, entry, pc, loc>>

\* a file or a directory of the user's own, where nothing was
UserPuts(agent, name, e) ==
    /\ pc = "idle"
    /\ skillsDir[agent]
    /\ entry[agent][name] = Missing
    /\ entry' = [entry EXCEPT ![agent][name] = e]
    /\ UNCHANGED <<fileExists, config, snapshot, skillsDir, pc, loc>>

----------------------------------------------------------------------------
(* The process                                                             *)

\* the next command is typed
Return ==
    /\ pc = "done"
    /\ pc' = "idle"
    /\ loc' = NoLoc
    /\ UNCHANGED disk

\* the process is killed between two steps of a handler
Crash ==
    /\ pc \notin {"idle", "done"}
    /\ Finish(loc, "crashed")
    /\ UNCHANGED disk

\* the commands that end without an error
Returned == {"ok", "cancelled", "unchanged", "already_configured"}

\* the next command is typed after one that ended without an error
ReturnOk ==
    /\ pc = "done"
    /\ loc.res \in Returned
    /\ Return

\* a command that has ended, with what was on disk before and after it
Remembered(l) ==
    [op |-> l.op, res |-> l.res, alias |-> l.alias,
     agent |-> IF "agent" \in DOMAIN l THEN l.agent ELSE "",
     name |-> IF "names" \in DOMAIN l /\ Len(l.names) > 0 THEN l.names[1] ELSE "",
     sha |-> IF "sha" \in DOMAIN l THEN l.sha ELSE "",
     pre |-> [f \in DOMAIN DiskNow |-> l.pre[f]],
     post |-> DiskNow]

\* the next command is typed; a command of ops that ended without an error
\* is remembered by it
ReturnRemembering(ops) ==
    /\ pc = "done"
    /\ pc' = "idle"
    /\ loc' = IF loc.op \in ops /\ loc.res \in Returned
              THEN [op |-> "none", last |-> Remembered(loc)]
              ELSE NoLoc
    /\ UNCHANGED disk

\* the next command is typed; a command of ops that was killed is
\* remembered by it
ReturnAfterCrash(ops) ==
    /\ pc = "done"
    /\ pc' = "idle"
    /\ loc' = IF loc.op \in ops /\ loc.res = "crashed"
              THEN [op |-> "none", last |-> Remembered(loc)]
              ELSE NoLoc
    /\ UNCHANGED disk

\* the next command is typed; a successful skill install is remembered
ReturnRemember == ReturnRemembering({"skill_install"})

RepoCommands(aliases, urls, refFlags) ==
    \/ \E alias \in aliases, url \in urls, refFlag \in refFlags :
          RepoAddStart(alias, url, refFlag)
    \/ \E alias \in aliases, confirmed \in BOOLEAN :
          RepoRemoveStart(alias, confirmed)
    \/ \E alias \in aliases : RepoUpdateStart(alias)

RepoSteps(times) ==
    \/ CloneRm
    \/ \E sha \in Shas : CloneOk(sha)
    \/ \E now \in times : RepoAddSave(now)
    \/ RepoRemoveDir
    \/ RepoRemoveRecord
    \/ \E newSha \in Shas : GitUpdateOk(newSha)
    \/ RepoUpdateSave

RepoFailures ==
    \/ CloneFail
    \/ \E left \in Shas : GitUpdateFail(left)

SkillCommands(aliases, nameFlags) ==
    \/ \E alias \in aliases, skillPath \in Paths, nameFlag \in nameFlags :
          SkillInstallStart(alias, skillPath, nameFlag)
    \/ \E name \in SkillNames, confirmed \in BOOLEAN :
          SkillRemoveStart(name, confirmed)

SkillSteps(times) ==
    \/ \E now \in times : SkillInstallSave(now)
    \/ SkillRemoveSave
    \/ RepoRemoveSkill

AgentCommands(agents) ==
    \/ \E agent \in agents : AgentAddStart(agent)
    \/ \E agent \in agents, confirmed \in BOOLEAN :
          AgentRemoveStart(agent, confirmed)

AgentSteps ==
    \/ AgentAddSave
    \/ AgentRemoveSave

LinkSteps(ioErrors) ==
    \/ \E ioError \in ioErrors : ProjectAgent(ioError)
    \/ \E ioError \in ioErrors : ProjectSymlink(ioError)
    \/ \E ioError \in ioErrors : RetractAgent(ioError)

UserDirs(agents) ==
    \/ \E agent \in agents : UserRemovesSkillsDir(agent)
    \/ \E agent \in agents : UserMakesSkillsDir(agent)

UserFiles(agents, names) ==
    \E agent \in agents, name \in names, e \in {RegularFile, RealDir} :
        UserPuts(agent, name, e)

\* Every command on two repositories, two skills and one agent; a handler
\* can be killed between two steps, git and the symlink calls can fail.
Next ==
    \/ RepoCommands(Aliases, {UrlPlain}, {NoFlag})
    \/ SkillCommands(Aliases, NameFlags)
    \/ AgentCommands({"a1"})
    \/ RepoSteps({"t1"}) \/ RepoFailures
    \/ SkillSteps({"t1"}) \/ AgentSteps
    \/ LinkSteps(BOOLEAN)
    \/ Return
    \/ Crash

Spec == Init /\ [][Next]_vars

\* Every command on two repositories, two skills and two agents, as long as
\* every command ends without an error: nothing fails, nothing is killed,
\* and the user's own files are where a link may have to go.
NextClean ==
    \/ RepoCommands(Aliases, {UrlPlain}, {NoFlag})
    \/ SkillCommands(Aliases, NameFlags)
    \/ AgentCommands(Agents)
    \/ RepoSteps({"t1"})
    \/ SkillSteps({"t1"}) \/ AgentSteps
    \/ LinkSteps({FALSE})
    \/ UserFiles(Agents, {"x"})
    \/ ReturnOk

SpecClean == Init /\ [][NextClean]_vars

\* The repository commands alone, with every form of their arguments.
NextRepo ==
    \/ RepoCommands(Aliases \cup BadAliases, Urls, RefFlags)
    \/ RepoSteps(Times) \/ RepoFailures
    \/ Return
    \/ Crash

SpecRepo == Init /\ [][NextRepo]_vars

RepoUpdateAll ==
    \/ RepoUpdateAllStart
    \/ \E newSha \in Shas : UpdateAllGitOk(newSha)
    \/ \E left \in Shas : UpdateAllGitFail(left)
    \/ UpdateAllSave

\* The repository commands and update --all on two repositories; git can
\* fail, a handler can be killed, and an update that ended without an error
\* is remembered by the command that follows it.
NextUpdate ==
    \/ RepoCommands(Aliases, {UrlPlain}, RefFlags)
    \/ RepoUpdateAll
    \/ RepoSteps({"t1"}) \/ RepoFailures
    \/ ReturnRemembering({"repo_update"})
    \/ Crash

SpecUpdate == Init /\ [][NextUpdate]_vars

\* One repository, two skills and two agents whose skills directories come
\* and go and hold the user's own files; handlers fail and are killed.
NextAgents ==
    \/ RepoCommands({"r"}, {UrlPlain}, {NoFlag})
    \/ SkillCommands({"r"}, {NoFlag})
    \/ AgentCommands(Agents)
    \/ RepoSteps({"t1"}) \/ RepoFailures
    \/ SkillSteps({"t1"}) \/ AgentSteps
    \/ LinkSteps(BOOLEAN)
    \/ UserDirs(Agents)
    \/ UserFiles(Agents, {"x"})
    \/ Return
    \/ Crash

SpecAgents == Init /\ [][NextAgents]_vars

\* Every command on two repositories, two skills and two agents, with the
\* user's own files in the way (skills are installed under the name of their
\* directory); no call fails by itself and nothing is killed, but a command
\* may end with an error.  A successful install is remembered by the command
\* that follows it.
NextRoundTrip ==
    \/ RepoCommands(Aliases, {UrlPlain}, {NoFlag})
    \/ SkillCommands(Aliases, {NoFlag})
    \/ AgentCommands(Agents)
    \/ RepoSteps({"t1"})
    \/ SkillSteps({"t1"}) \/ AgentSteps
    \/ LinkSteps({FALSE})
    \/ UserFiles(Agents, {"x"})
    \/ ReturnRemember

SpecRoundTrip == Init /\ [][NextRoundTrip]_vars

\* One repository, two skills (installed under their own name or under
\* another) and two agents, with the user's own files in the way; no call
\* fails by itself and nothing is killed.  A successful agent add is
\* remembered by the command that follows it.
NextAgentTrip ==
    \/ RepoCommands({"r"}, {UrlPlain}, {NoFlag})
    \/ SkillCommands({"r"}, NameFlags)
    \/ AgentCommands(Agents)
    \/ RepoSteps({"t1"})
    \/ SkillSteps({"t1"}) \/ AgentSteps
    \/ LinkSteps({FALSE})
    \/ UserFiles(Agents, {"x"})
    \/ ReturnRemembering({"agent_add"})

SpecAgentTrip == Init /\ [][NextAgentTrip]_vars

\* skillctl.json as a version of the program has written it: every field
\* with one of two values
WrittenFiles ==
    [agents : {<<>>, <<"a1">>},
     default_ref : {"main", "dev"},
     repos : {<<>>, Put(<<>>, "r", RepoMetadata(UrlPlain, "main", "sha1", "t1"))},
     skills : {<<>>, Put(<<>>, "x", SkillMetadata("r", PathX, "t1"))}]

\* skillctl.json as an older schema may have left it: some fields are not
\* there
OlderFiles ==
    {[f \in fields |-> file[f]] : file \in WrittenFiles,
                                  fields \in SUBSET ConfigFields}

\* the state before a command: no skillctl.json, or one of any schema
InitLoad ==
    /\ \/ fileExists = FALSE /\ config = DefaultConfig
       \/ fileExists = TRUE /\ config \in OlderFiles
    /\ snapshot = [a \in Aliases |-> "absent"]
    /\ skillsDir = [a \in Agents |-> TRUE]
    /\ entry = [a \in Agents |-> [n \in SkillNames |-> Missing]]
    /\ pc = "idle"
    /\ loc = NoLoc

\* config, run again and again on a skillctl.json of any schema
NextLoad ==
    \/ ConfigShow
    \/ ReturnRemembering({"config"})

SpecLoad == InitLoad /\ [][NextLoad]_vars

\* The repository commands one at a time, and two repo update processes
\* whose loads and saves of skillctl.json interleave in every order.
NextConcurrent ==
    \/ RepoCommands(Aliases, {UrlPlain}, {NoFlag})
    \/ RepoSteps({"t1"})
    \/ \E aliasOne \in Aliases, aliasTwo \in Aliases, shaOne \in Shas, shaTwo \in Shas :
          TwoUpdatesStart(aliasOne, shaOne, aliasTwo, shaTwo)
    \/ \E p \in Procs : UpdateRepoLoad(p)
    \/ \E p \in Procs : UpdateRepoSave(p)
    \/ Return

SpecConcurrent == Init /\ [][NextConcurrent]_vars

\* One repository, two skills (installed under their own name or under
\* another) and two agents; no call fails by itself, but a handler can be
\* killed between two steps.  A repo remove that was killed is remembered by
\* the command that follows it.
NextRecover ==
    \/ RepoCommands({"r"}, {UrlPlain}, {NoFlag})
    \/ SkillCommands({"r"}, NameFlags)
    \/ AgentCommands(Agents)
    \/ RepoSteps({"t1"})
    \/ SkillSteps({"t1"}) \/ AgentSteps
    \/ LinkSteps({FALSE})
    \/ ReturnAfterCrash({"repo_remove"})
    \/ Crash

SpecRecover == Init /\ [][NextRecover]_vars

----------------------------------------------------------------------------
(* Properties                                                              *)

\* no handler is running, and the last one ended without an error
AtRest == pc = "idle" \/ (pc = "done" /\ loc.res \in Returned)

\* the link of a skill record
LinkOf(skill) == Symlink(SourcePath(skill.repo_alias, skill.path))

\* C1: at rest after commands that all ended without an error, with every
\* skills directory present, <agent>/skills/<name> of every registered agent
\* and every installed skill is a symlink to repos/<repo_alias>/<path>.
C1_LinkInvariant ==
    AtRest =>
        \A i \in 1..Len(config.agents), k \in 1..Len(config.skills) :
            /\ skillsDir[config.agents[i]]
            /\ entry[config.agents[i]][config.skills[k][1]]
                 = LinkOf(config.skills[k][2])

\* two agents and two skills of two repositories, the second agent added
\* when the skills were installed and a file of the user's was in the way
C1_Witness ==
    /\ pc = "done"
    /\ loc.op = "agent_add"
    /\ loc.res = "ok"
    /\ config.agents = <<"a1", "a2">>
    /\ Len(config.skills) = 2
    /\ config.skills[1][2].repo_alias # config.skills[2][2].repo_alias
    /\ loc.pre.entry["a2"]["x"] = RegularFile


\* the State a load returns from what was on disk when the handler started
StateBefore == IF loc.pre.fileExists THEN loc.pre.config ELSE DefaultConfig

\* the links, the working copies and the State are as the handler found them
NothingChanged ==
    /\ Load = StateBefore
    /\ snapshot = loc.pre.snapshot
    /\ skillsDir = loc.pre.skillsDir
    /\ entry = loc.pre.entry

\* e is a symlink into repos/<alias>
LinksInto(e, alias) == e.kind = "link" /\ e.target[2] = alias

\* C2: in every state, between two steps of a handler and after a crash or
\* an error too, the repo_alias of every Skill record is a registered alias.
C2_ReferentialIntegrity ==
    \A k \in 1..Len(config.skills) :
        Has(config.repos, config.skills[k][2].repo_alias)

\* repo remove killed after the first of two dependent skills was removed
C2_Witness ==
    /\ pc = "done"
    /\ loc.op = "repo_remove"
    /\ loc.res = "crashed"
    /\ Len(loc.names) = 2
    /\ Len(config.skills) = 1
    /\ config.skills[1][2].repo_alias = loc.alias

\* C3: while repo remove runs (and after it is killed), once it has deleted
\* the working copy and the Repository record is still there, no Skill
\* record of the repository and no symlink of a dependent skill is left.
C3_NoRecordWithoutSnapshot ==
    ( /\ loc.op = "repo_remove"
      /\ ~loc.warned
      /\ loc.pre.snapshot[loc.alias] # "absent"
      /\ snapshot[loc.alias] = "absent"
      /\ Has(config.repos, loc.alias) )
    => /\ GetSkillsByRepo(config, loc.alias) = <<>>
       /\ \A i \in 1..Len(loc.agents), k \in 1..Len(loc.names) :
             ~LinksInto(entry[loc.agents[i]][loc.names[k]], loc.alias)

\* C4: repo remove of a registered alias with dependent skills, declined at
\* the prompt, changes no record, no working copy and no link.
C4_DeclinedChangesNothing ==
    ( /\ pc = "done"
      /\ loc.op = "repo_remove"
      /\ loc.res = "cancelled"
      /\ Len(loc.names) > 0 )
    => NothingChanged

\* declined with a dependent skill that is linked under the agent
C4_Witness ==
    /\ pc = "done"
    /\ loc.op = "repo_remove"
    /\ loc.res = "cancelled"
    /\ Len(loc.names) > 0
    /\ Len(config.agents) > 0
    /\ LinksInto(entry[config.agents[1]][loc.names[1]], loc.alias)
    /\ Len(config.repos) = 2

\* C5: repo remove with consent that ends without an error (and without an
\* unlink warning) has removed exactly the Skill records of the alias, every
\* symlink at their names under every agent, the working copy and the
\* Repository record, and nothing else.
C5_RemovesExactly ==
    ( /\ pc = "done"
      /\ loc.op = "repo_remove"
      /\ loc.res = "ok"
      /\ ~loc.warned )
    => /\ config.skills =
             SelectSeq(StateBefore.skills,
                       LAMBDA e : e[2].repo_alias # loc.alias)
       /\ config.repos = Del(StateBefore.repos, loc.alias)
       /\ config.agents = StateBefore.agents
       /\ snapshot = [loc.pre.snapshot EXCEPT ![loc.alias] = "absent"]
       /\ \A a \in Agents, n \in SkillNames :
             IF Includes(loc.names, n) /\ Includes(loc.agents, a)
                /\ loc.pre.entry[a][n].kind = "link"
             THEN entry[a][n] = Missing
             ELSE entry[a][n] = loc.pre.entry[a][n]

\* C6: repo add writes the Repository record only once the clone has
\* succeeded; when the clone fails the State is the one before the command.
C6_RecordOnlyAfterClone ==
    loc.op = "repo_add" =>
        /\ pc \in {"add_rm", "add_clone", "add_save"}
              => ~Has(Load.repos, loc.alias)
        /\ (pc = "done" /\ loc.res = "clone_failed") => Load = StateBefore
        /\ ( /\ pc = "done"
             /\ Has(Load.repos, loc.alias)
             /\ ~Has(StateBefore.repos, loc.alias) )
              => /\ loc.res = "ok"
                 /\ snapshot[loc.alias] = Get(Load.repos, loc.alias).sha

\* a failed clone with another repository registered
C6_Witness ==
    /\ pc = "done"
    /\ loc.op = "repo_add"
    /\ loc.res = "clone_failed"
    /\ Len(config.repos) = 1
    /\ loc.pre.snapshot[loc.alias] # "absent"

\* C7: after a successful repo add, getRepo(alias) has the sha the clone
\* returned, the url as given and the ref as given, default_ref when none was.
C7_RegisterThenGet ==
    (pc = "done" /\ loc.op = "repo_add" /\ loc.res = "ok") =>
        /\ Has(Load.repos, loc.alias)
        /\ Get(Load.repos, loc.alias).sha = loc.sha
        /\ loc.sha = snapshot[loc.alias]
        /\ Get(Load.repos, loc.alias).url = loc.url
        /\ Get(Load.repos, loc.alias).ref =
              IF loc.refFlag = NoFlag THEN StateBefore.default_ref
              ELSE loc.refFlag

\* registered without --ref, with a url that git gets normalized
C7_Witness ==
    /\ pc = "done"
    /\ loc.op = "repo_add"
    /\ loc.res = "ok"
    /\ loc.refFlag = NoFlag
    /\ loc.url = UrlPlain
    /\ loc.gitUrl = UrlHttps
    /\ Get(Load.repos, loc.alias).ref = "main"
    /\ Get(Load.repos, loc.alias).sha = "sha2"

\* C8: repo add with a registered alias, or one that fails the format check,
\* ends at once: the clone is never entered, and no working copy, record or
\* link has changed.
C8_RejectedBeforeEffects ==
    ( /\ loc.op = "repo_add"
      /\ \/ loc.alias \in BadAliases
         \/ Has(StateBefore.repos, loc.alias) )
    => /\ pc = "done"
       /\ loc.res \in {"invalid_alias", "already_registered"}
       /\ NothingChanged

\* a registered alias with its working copy and its record in place
C8_Witness ==
    /\ pc = "done"
    /\ loc.op = "repo_add"
    /\ loc.res = "already_registered"
    /\ snapshot[loc.alias] = "sha1"
    /\ Get(config.repos, loc.alias).ref = "dev"
    /\ loc.refFlag = NoFlag

\* an alias that fails the format check
C8_WitnessInvalid ==
    /\ pc = "done"
    /\ loc.op = "repo_add"
    /\ loc.res = "invalid_alias"
    /\ Len(config.repos) = 2

\* C9: skill install with an unknown alias, a name that is installed (from
\* any repository) or a path that is not in the working copy ends at once
\* and has written no Skill record and touched no link.
C9_InstallRejected ==
    ( /\ loc.op = "skill_install"
      /\ \/ ~Has(StateBefore.repos, loc.alias)
         \/ Has(StateBefore.skills, loc.names[1])
         \/ ~SourceExists(loc.pre.snapshot, loc.sources[1]) )
    => /\ pc = "done"
       /\ loc.res \in {"repo_not_registered", "already_installed",
                       "path_not_found"}
       /\ NothingChanged

\* the name, given with --name, is installed from the other repository and
\* linked under the agent
C9_Witness ==
    /\ pc = "done"
    /\ loc.op = "skill_install"
    /\ loc.res = "already_installed"
    /\ loc.path = PathY
    /\ loc.names[1] = "x"
    /\ Get(config.skills, "x").repo_alias # loc.alias
    /\ Len(config.agents) = 1
    /\ LinksInto(entry[config.agents[1]]["x"], Get(config.skills, "x").repo_alias)

\* the path is not in the working copy
C9_WitnessPath ==
    /\ pc = "done"
    /\ loc.op = "skill_install"
    /\ loc.res = "path_not_found"
    /\ Has(config.repos, loc.alias)

\* C10: a skill install that passes the three checks writes the Skill
\* record, whatever happens to the links: an agent that is skipped or a
\* symlink call that fails does not prevent it.
C10_RecordWrittenRegardless ==
    ( /\ pc = "done"
      /\ loc.op = "skill_install"
      /\ loc.res \notin {"repo_not_registered", "already_installed",
                         "path_not_found", "crashed"} )
    => /\ Has(config.skills, loc.names[1])
       /\ Get(config.skills, loc.names[1]).repo_alias = loc.alias
       /\ Get(config.skills, loc.names[1]).path = loc.path

\* the call on names[k] has thrown at this agent
FailedAt(agent) == <<loc.names[loc.k], agent>> \in loc.failed

\* createSymlinksForAgents of the install is over, by return or by throw
ProjectOver ==
    /\ loc.op = "skill_install"
    /\ \/ pc = "inst_save"
       \/ pc = "done" /\ loc.res \in {"ok", "io_error"}
    /\ Len(loc.agents) > 0

\* removeSymlinksForAgents of skill names[k] is over
RetractOver ==
    /\ loc.op \in {"skill_remove", "repo_remove"}
    /\ pc \in {"srm_save", "rrm_rmskill"}

\* C11 (project): once the call is over, every agent of the list that has a
\* skills directory and whose own symlink call did not fail has the link,
\* also an agent after one that failed or was skipped.
C11_ProjectIndependent ==
    ProjectOver =>
        \A j \in 1..Len(loc.agents) :
            (skillsDir[loc.agents[j]] /\ ~FailedAt(loc.agents[j]))
                => entry[loc.agents[j]][loc.names[1]] = Symlink(loc.sources[1])

\* C11 (retract): once the call is over, every agent of the list whose own
\* unlink did not fail has no link at the name.
C11_RetractIndependent ==
    RetractOver =>
        \A j \in 1..Len(loc.agents) :
            ~FailedAt(loc.agents[j])
                => entry[loc.agents[j]][loc.names[loc.k]].kind # "link"

\* C11: project and retract are per-agent independent: an agent that fails
\* (symlink or unlink IOError) or is skipped does not keep the agents after
\* it from being processed; after the call every other agent with a skills
\* directory has (project) or lacks (retract) the link.
C11_PerAgentIndependent == C11_ProjectIndependent /\ C11_RetractIndependent

\* C12: in every state of remove-skill, remove-agent and remove-repository
\* (each of them retracts), and after them, what was a regular file or a real
\* directory at <agent>/skills/<name> when the command started is still
\* there, unchanged.
C12_RetractKeepsFiles ==
    loc.op \in {"skill_remove", "agent_remove", "repo_remove"} =>
        \A a \in Agents, n \in SkillNames :
            loc.pre.entry[a][n].kind \in {"file", "dir"}
                => entry[a][n] = loc.pre.entry[a][n]

\* remove-skill has ended and passed over a regular file of the user's at the
\* skill's name under a registered agent
C12_Witness ==
    /\ pc = "done"
    /\ loc.op = "skill_remove"
    /\ loc.res = "ok"
    /\ \E j \in 1..Len(loc.agents) :
          /\ loc.pre.entry[loc.agents[j]][loc.names[1]] = RegularFile
          /\ entry[loc.agents[j]][loc.names[1]] = RegularFile

\* a remove-skill that ended without an error or a warning, of the skill
\* whose install was the command before it, nothing having changed on disk
\* between the two
InstalledThenRemoved ==
    /\ pc = "done"
    /\ loc.op = "skill_remove"
    /\ loc.res = "ok"
    /\ loc.failed = {}
    /\ loc.pre.last.op = "skill_install"
    /\ loc.pre.last.name = loc.names[1]
    /\ loc.pre.last.post = [f \in DOMAIN DiskNow |-> loc.pre[f]]

\* the State a load returned before the remembered install
StateBeforeInstall ==
    IF loc.pre.last.pre.fileExists THEN loc.pre.last.pre.config
    ELSE DefaultConfig

\* C13: after install then remove of a skill, no registered agent has a
\* symlink at the skill's name and there is no Skill record of it; the
\* Repository records,
\* the working copies, the other Skill records, the agent list and the
\* entries at every other name are those from before the install.
C13_InstallThenRemove ==
    InstalledThenRemoved =>
        /\ \A j \in 1..Len(config.agents) :
              entry[config.agents[j]][loc.names[1]].kind # "link"
        /\ ~Has(config.skills, loc.names[1])
        /\ config = StateBeforeInstall
        /\ snapshot = loc.pre.last.pre.snapshot
        /\ \A a \in Agents, n \in SkillNames \ {loc.names[1]} :
              entry[a][n] = loc.pre.last.pre.entry[a][n]

\* installed to two agents, one of which had a file of the user's at the
\* name, next to an installed skill of the same repository, then removed
C13_Witness ==
    /\ InstalledThenRemoved
    /\ Len(loc.agents) = 2
    /\ loc.pre.last.pre.entry["a2"][loc.names[1]] = RegularFile
    /\ loc.pre.entry["a1"][loc.names[1]].kind = "link"
    /\ Len(config.skills) = 1
    /\ config.skills[1][2].repo_alias = loc.pre.last.alias
    /\ entry["a1"][config.skills[1][1]].kind = "link"

\* the single update before this one, of the same alias, reported unchanged;
\* nothing has changed on disk since, and git has returned the same
\* identifier to this one (no upstream change)
SecondUpdate ==
    /\ loc.op = "repo_update"
    /\ loc.pre.last.op = "repo_update"
    /\ loc.pre.last.alias = loc.alias
    /\ loc.pre.last.res = "unchanged"
    /\ loc.pre.last.post = [f \in DOMAIN DiskNow |-> loc.pre[f]]
    /\ loc.sha = loc.pre.last.sha

\* the sha stored for the alias in a State read from disk d
StoredSha(d, alias) == Get(d.config.repos, alias).sha

\* C14: an update to which git returns the stored identifier has ended,
\* reported unchanged and written nothing; a second update in a row with the
\* same identifier returned reports unchanged too, and the stored sha is the
\* same before the first, between the two and after the second.
C14_UpdateIdempotent ==
    /\ ( /\ loc.op = "repo_update"
         /\ loc.sha # ""
         /\ loc.sha = loc.repo.sha )
       => /\ pc = "done"
          /\ loc.res = "unchanged"
          /\ Load = StateBefore
    /\ SecondUpdate
       => /\ pc = "done"
          /\ loc.res = "unchanged"
          /\ StoredSha(loc.pre.last.pre, loc.alias) = StoredSha(loc.pre, loc.alias)
          /\ StoredSha(loc.pre, loc.alias) = StoredSha(DiskNow, loc.alias)
          /\ StoredSha(DiskNow, loc.alias) = loc.sha

\* the second of two updates in a row, with the other repository registered
\* at another sha
C14_Witness ==
    /\ SecondUpdate
    /\ pc = "done"
    /\ Len(config.repos) = 2
    /\ config.repos[1][2].sha # config.repos[2][2].sha

\* C15: a single update changes nothing but the sha of its one Repository
\* record, in every state of the handler: url, ref and added_at of the
\* record, the other Repository records, the Skill records, the agent list
\* and every entry under the agents (a symlink's name and target) are as
\* before; once it has ended with a new identifier, that is the stored sha.
C15_UpdateChangesShaOnly ==
    loc.op = "repo_update" =>
        /\ Keys(Load.repos) = Keys(StateBefore.repos)
        /\ \A i \in 1..Len(Load.repos) :
              IF Load.repos[i][1] = loc.alias
              THEN /\ Load.repos[i][2].url = StateBefore.repos[i][2].url
                   /\ Load.repos[i][2].ref = StateBefore.repos[i][2].ref
                   /\ Load.repos[i][2].added_at = StateBefore.repos[i][2].added_at
              ELSE Load.repos[i] = StateBefore.repos[i]
        /\ Load.skills = StateBefore.skills
        /\ Load.agents = StateBefore.agents
        /\ Load.default_ref = StateBefore.default_ref
        /\ entry = loc.pre.entry
        /\ skillsDir = loc.pre.skillsDir
        /\ \A a \in Aliases \ {loc.alias} : snapshot[a] = loc.pre.snapshot[a]
        /\ (pc = "done" /\ loc.res = "ok")
              => /\ Get(Load.repos, loc.alias).sha = loc.sha
                 /\ loc.sha # loc.repo.sha
                 /\ snapshot[loc.alias] = loc.sha

\* an update to a new identifier, with the other repository registered and a
\* skill of the updated one linked under the agent
C15_Witness ==
    /\ pc = "done"
    /\ loc.op = "repo_update"
    /\ loc.res = "ok"
    /\ Len(config.repos) = 2
    /\ Len(config.agents) = 1
    /\ \E k \in 1..Len(config.skills) :
          /\ config.skills[k][2].repo_alias = loc.alias
          /\ LinksInto(entry[config.agents[1]][config.skills[k][1]], loc.alias)

\* C16: a single update whose refresh failed leaves the State as it was;
\* in update --all the Repository record of every alias whose refresh failed
\* is, from then on, the record from before the call.
C16_FailedUpdateWritesNothing ==
    /\ ( /\ pc = "done"
         /\ loc.op = "repo_update"
         /\ loc.res \in {"update_failed", "no_directory"} )
       => Load = StateBefore
    /\ loc.op = "repo_update_all"
       => \A j \in 1..Len(loc.outcomes) :
             loc.outcomes[j] = "failed"
                => /\ Has(Load.repos, loc.tried[j])
                   /\ Get(Load.repos, loc.tried[j])
                        = Get(StateBefore.repos, loc.tried[j])

\* update --all has ended: the first refresh failed after the working copy
\* had moved off the stored sha, the second repository was updated
C16_Witness ==
    /\ pc = "done"
    /\ loc.op = "repo_update_all"
    /\ loc.outcomes = <<"failed", "updated">>
    /\ snapshot[loc.tried[1]] # Get(config.repos, loc.tried[1]).sha

\* a single update has failed after the working copy had moved
C16_WitnessSingle ==
    /\ pc = "done"
    /\ loc.op = "repo_update"
    /\ loc.res = "update_failed"
    /\ snapshot[loc.alias] # loc.repo.sha

\* C17: while update --all runs, the aliases it has attempted are the first
\* k of those registered when it started, each once and in order; when it
\* has ended every one of them has been attempted, whatever the outcome of
\* the others, and updated + unchanged + failed is their number.
C17_UpdateAllAttemptsAll ==
    loc.op = "repo_update_all" =>
        /\ Len(loc.tried) <= Len(StateBefore.repos)
        /\ loc.tried = SubSeq(Keys(StateBefore.repos), 1, Len(loc.tried))
        /\ (pc = "done" /\ loc.res = "ok")
              => /\ loc.tried = Keys(StateBefore.repos)
                 /\ loc.updated + loc.unchanged + loc.failed
                      = Len(StateBefore.repos)
                 /\ Len(loc.outcomes) = Len(StateBefore.repos)

\* update --all has ended: the first refresh failed, the second repository
\* was attempted and found unchanged
C17_Witness ==
    /\ pc = "done"
    /\ loc.op = "repo_update_all"
    /\ loc.res = "ok"
    /\ loc.outcomes = <<"failed", "unchanged">>
    /\ loc.failed = 1
    /\ loc.unchanged = 1
    /\ Len(loc.tried) = 2

\* C18: in every state no path is twice in the agent list; an agent add of a
\* path that is configured, or that has no skills directory, has ended at
\* once and has changed no record, no working copy and no entry.
C18_AgentUnique ==
    /\ \A i, j \in 1..Len(config.agents) :
          config.agents[i] = config.agents[j] => i = j
    /\ ( /\ loc.op = "agent_add"
         /\ \/ Includes(StateBefore.agents, loc.agent)
            \/ ~loc.pre.skillsDir[loc.agent] )
       => /\ pc = "done"
          /\ loc.res \in {"already_configured", "no_skills_dir"}
          /\ NothingChanged

\* the second agent, already configured next to the first, with a skill
\* linked under it
C18_Witness ==
    /\ pc = "done"
    /\ loc.op = "agent_add"
    /\ loc.res = "already_configured"
    /\ config.agents = <<"a1", "a2">>
    /\ loc.agent = "a2"
    /\ \E k \in 1..Len(config.skills) :
          entry["a2"][config.skills[k][1]] = LinkOf(config.skills[k][2])

\* a path without a skills directory, with another agent configured
C18_WitnessNoDir ==
    /\ pc = "done"
    /\ loc.op = "agent_add"
    /\ loc.res = "no_skills_dir"
    /\ Len(config.agents) = 1
    /\ Len(config.skills) > 0

\* agent add has passed its checks and has ended, by return or by throw
AgentAddOver ==
    /\ pc = "done"
    /\ loc.op = "agent_add"
    /\ loc.res \in {"ok", "io_error", "source_missing"}

\* C19: when agent add has ended, every installed skill was projected to the
\* new agent: each skill whose source is in the working copy and whose own
\* symlink call did not fail is linked, also a skill that comes after one
\* whose projection failed.
C19_AllSkillsProjected ==
    AgentAddOver =>
        \A k \in 1..Len(loc.names) :
            ( /\ SourceExists(snapshot, loc.sources[k])
              /\ <<loc.names[k], loc.agent>> \notin loc.failed )
            => entry[loc.agent][loc.names[k]] = Symlink(loc.sources[k])

\* C20: in agent add the Agent record is written before any projection and
\* is not taken back: in no state of the handler has an entry changed while
\* the path is not in the agent list, and from the first projection on, and
\* after the handler has ended by return or by a failed projection, the path
\* is in the list.
C20_AgentRecordFirst ==
    loc.op = "agent_add" =>
        /\ entry # loc.pre.entry => Includes(Load.agents, loc.agent)
        /\ (pc \in {"project", "symlink"} \/ AgentAddOver)
              => Includes(Load.agents, loc.agent)

\* agent add has ended with a failed projection of the second skill, after
\* the first was linked
C20_Witness ==
    /\ AgentAddOver
    /\ loc.res \in {"io_error", "source_missing"}
    /\ loc.k = 2
    /\ entry[loc.agent][loc.names[1]] = Symlink(loc.sources[1])
    /\ entry[loc.agent][loc.names[2]].kind # "link"
    /\ ~Includes(StateBefore.agents, loc.agent)

----------------------------------------------------------------------------
\* agent remove of the path that the command just before it has added,
\* with skills installed, both ended without an error
AddedThenRemoved ==
    /\ pc = "done"
    /\ loc.op = "agent_remove"
    /\ loc.res = "ok"
    /\ loc.pre.last.op = "agent_add"
    /\ loc.pre.last.res = "ok"
    /\ loc.pre.last.agent = loc.agent
    /\ loc.pre.last.post = [f \in DOMAIN DiskNow |-> loc.pre[f]]
    /\ Len(loc.pre.last.pre.config.skills) > 0

\* C21: with skills installed, a successful agent add leaves under the new
\* agent exactly one symlink per installed skill, to repos/<repo_alias>/<path>,
\* and nothing else changed there; the agent remove that follows takes away
\* exactly those symlinks and the agent record, and what is under every other
\* agent is as it was before the add.
C21_AddThenRemoveAgent ==
    AddedThenRemoved =>
        LET add == loc.pre.last
            skills == add.pre.config.skills
        IN  /\ Includes(add.post.config.agents, loc.agent)
            /\ \A n \in SkillNames :
                  add.post.entry[loc.agent][n] =
                      IF Has(skills, n) THEN LinkOf(Get(skills, n))
                      ELSE add.pre.entry[loc.agent][n]
            /\ \A n \in SkillNames :
                  entry[loc.agent][n] =
                      IF Has(skills, n) THEN Missing
                      ELSE add.pre.entry[loc.agent][n]
            /\ config = [add.post.config EXCEPT
                             !.agents = Filter(@, loc.agent)]
            /\ ~Includes(config.agents, loc.agent)
            /\ \A b \in Agents \ {loc.agent} :
                  /\ add.post.entry[b] = add.pre.entry[b]
                  /\ entry[b] = add.pre.entry[b]

\* two skills are installed and linked under the other, registered agent
\* when an agent is added and removed again
C21_Witness ==
    /\ AddedThenRemoved
    /\ Len(config.skills) = 2
    /\ \E b \in Agents \ {loc.agent} :
          /\ Includes(config.agents, b)
          /\ \A n \in SkillNames : entry[b][n].kind = "link"
    /\ \A n \in SkillNames : entry[loc.agent][n] = Missing

----------------------------------------------------------------------------
\* a load() has returned
Loaded == pc = "done" /\ loc.op = "config"

\* the load() before this one found no file, and nothing happened since
SecondLoad ==
    /\ Loaded
    /\ loc.pre.last.op = "config"
    /\ ~loc.pre.last.pre.fileExists
    /\ loc.pre.last.post = [f \in DOMAIN DiskNow |-> loc.pre[f]]

\* the default State, field by field
IsDefaultState(cfg) ==
    /\ DOMAIN cfg = ConfigFields
    /\ cfg.agents = <<>>
    /\ cfg.repos = <<>>
    /\ cfg.skills = <<>>
    /\ cfg.default_ref = "main"

\* C22: load() with no skillctl.json returns the default State (no agents,
\* no repos, no skills, default_ref main) and writes it to skillctl.json;
\* the load() after it returns the same State.
C22_MissingFileDefault ==
    /\ (Loaded /\ ~loc.pre.fileExists) =>
          /\ IsDefaultState(loc.returned)
          /\ fileExists
          /\ IsDefaultState(config)
    /\ SecondLoad =>
          /\ loc.pre.fileExists
          /\ IsDefaultState(loc.returned)
          /\ IsDefaultState(config)

\* a second load() after one that found no file
C22_Witness == SecondLoad /\ loc.res = "ok"

----------------------------------------------------------------------------
\* C23: load() of a skillctl.json that lacks a field (agents, default_ref,
\* repos or skills) returns a State with that field at its zero value, writes
\* the upgraded State to skillctl.json, and the fields that were there are
\* returned as they were.
C23_ForwardMigration ==
    (Loaded /\ loc.pre.fileExists) =>
        /\ DOMAIN loc.returned = ConfigFields
        /\ \A f \in ConfigFields \ DOMAIN loc.pre.config :
              loc.returned[f] = DefaultConfig[f]
        /\ \A f \in DOMAIN loc.pre.config :
              loc.returned[f] = loc.pre.config[f]
        /\ config = loc.returned

\* the migration of the one field that load() knows of: a skillctl.json
\* without repos
ReposMigration ==
    (Loaded /\ loc.pre.fileExists
            /\ ConfigFields \ DOMAIN loc.pre.config = {"repos"}) =>
        /\ loc.returned = [f \in ConfigFields |->
                              IF f = "repos" THEN <<>> ELSE loc.pre.config[f]]
        /\ config = loc.returned

----------------------------------------------------------------------------
\* a handler that projects is past its checks
Projecting ==
    /\ loc.op \in {"skill_install", "agent_add"}
    /\ pc \in {"project", "symlink", "inst_save", "done"}
    /\ loc.res \in {"", "ok", "io_error"}
    /\ Len(loc.names) > 0
    /\ Len(loc.agents) > 0

\* createSymlinksForAgents is done with agents[j] for skill names[k]: it has
\* gone on to the next one, has returned, or createSymlink has thrown there
ProjectedAt(k, j) ==
    \/ k < loc.k
    \/ k = loc.k /\ j < loc.i
    \/ <<loc.names[k], loc.agents[j]>> \in loc.failed
    \/ pc = "inst_save"
    \/ pc = "done" /\ loc.res = "ok"

\* what was at <agent>/skills/<name> when the handler started
KindBefore(k, j) ==
    LET e == loc.pre.entry[loc.agents[j]][loc.names[k]]
    IN  IF e.kind = "link" /\ ~SourceExists(loc.pre.snapshot, e.target)
        THEN "dangling" ELSE e.kind

\* once project is done with an agent that has a skills directory, the
\* entry is the symlink to the source, for what was there of kinds
ProjectReplaces(kinds) ==
    Projecting =>
        \A k \in 1..Len(loc.names), j \in 1..Len(loc.agents) :
            ( /\ ProjectedAt(k, j)
              /\ skillsDir[loc.agents[j]]
              /\ KindBefore(k, j) \in kinds )
            => entry[loc.agents[j]][loc.names[k]] = Symlink(loc.sources[k])

\* C24: project, for an agent that has a skills directory, ends with
\* <agent>/skills/<skillName> being the symlink to sourcePath, whether there
\* was nothing, a regular file, a symlink whose target exists, a symlink
\* whose target is gone, or a real directory at that path before.
C24_ProjectReplacesAnything ==
    ProjectReplaces({"none", "file", "link", "dangling", "dir"})

\* what createSymlink does replace: nothing, a regular file, a symlink whose
\* target exists
ProjectReplacesClearable == ProjectReplaces({"none", "file", "link"})

\* each of the three has been replaced
ProjectReplacedKind(kind) ==
    /\ Projecting
    /\ \E k \in 1..Len(loc.names), j \in 1..Len(loc.agents) :
          /\ ProjectedAt(k, j)
          /\ KindBefore(k, j) = kind
          /\ entry[loc.agents[j]][loc.names[k]] = Symlink(loc.sources[k])

----------------------------------------------------------------------------
\* where a symlink was when the handler started, there is an entry
LinksStillThere ==
    \A a \in Agents, n \in SkillNames :
        loc.pre.entry[a][n].kind = "link" => entry[a][n].kind # "none"

\* C25: project replaces an existing link atomically: in no state of a
\* handler that projects, and in no state a kill of it leaves, is
\* <agent>/skills/<skillName> absent where a symlink was before the call.
C25_ReplaceAtomic ==
    loc.op \in {"skill_install", "agent_add"} => LinksStillThere

\* the same of the states a handler that projects is killed in
ReplaceAtomicAfterCrash ==
    ( /\ loc.op \in {"skill_install", "agent_add"}
      /\ pc = "done"
      /\ loc.res = "crashed" ) => LinksStillThere

----------------------------------------------------------------------------
\* createSymlinksForAgents has gone past agents[j] for skill names[k]
\* without a throw
PassedAt(k, j) ==
    \/ k < loc.k
    \/ k = loc.k /\ j < loc.i
    \/ pc = "inst_save"
    \/ pc = "done" /\ loc.res = "ok"

\* a handler that projects is in its loop or past it
InProjection ==
    /\ loc.op \in {"skill_install", "agent_add"}
    /\ pc \in {"project", "symlink", "inst_save", "done"}
    /\ loc.res \in {"", "ok", "io_error", "source_missing", "crashed"}
    /\ Len(loc.names) > 0

\* C26: project skips an agent that has no skills directory: the directory
\* is not created and nothing is under it, and the loop goes on, so every
\* agent of the list that project has gone past, before or after a skipped
\* one, has the link if it has a skills directory (the agents are gone
\* through in list order: the ones gone past are a prefix of the list).
C26_SkipMissingDir ==
    InProjection =>
        \A k \in 1..Len(loc.names), j \in 1..Len(loc.agents) :
            PassedAt(k, j) =>
                LET a == loc.agents[j]
                IN  IF loc.pre.skillsDir[a]
                    THEN entry[a][loc.names[k]] = Symlink(loc.sources[k])
                    ELSE /\ ~skillsDir[a]
                         /\ \A n \in SkillNames : entry[a][n] = Missing

\* an install has returned whose first agent has no skills directory and
\* whose second agent has one and has got the link
C26_Witness ==
    /\ pc = "done"
    /\ loc.op = "skill_install"
    /\ loc.res = "ok"
    /\ Len(loc.agents) = 2
    /\ ~skillsDir[loc.agents[1]]
    /\ skillsDir[loc.agents[2]]
    /\ loc.pre.entry[loc.agents[2]][loc.names[1]] = Missing
    /\ entry[loc.agents[2]][loc.names[1]] = Symlink(loc.sources[1])

----------------------------------------------------------------------------
\* an install that found no agent configured has returned
InstalledUnlinked ==
    /\ pc = "done"
    /\ loc.op = "skill_install"
    /\ loc.res = "ok"
    /\ Len(loc.pre.config.agents) = 0

\* C27: an install with no agent configured creates no symlink and writes
\* the Skill record (repo_alias, path, installed_at), and nothing else of
\* the State changes; an agent add that ends without an error links every
\* skill installed before it, so also that one, under the new agent.
C27_InstallWithoutAgents ==
    /\ InstalledUnlinked =>
          /\ entry = loc.pre.entry
          /\ Has(config.skills, loc.names[1])
          /\ Get(config.skills, loc.names[1]).repo_alias = loc.alias
          /\ Get(config.skills, loc.names[1]).path = loc.path
          /\ Get(config.skills, loc.names[1]).installed_at \in Times
          /\ DOMAIN Get(config.skills, loc.names[1])
                = {"repo_alias", "path", "installed_at"}
          /\ Del(config.skills, loc.names[1]) = loc.pre.config.skills
          /\ config.agents = <<>>
          /\ config.repos = loc.pre.config.repos
    /\ (pc = "done" /\ loc.op = "agent_add" /\ loc.res = "ok") =>
          \A k \in 1..Len(loc.pre.config.skills) :
              entry[loc.agent][loc.pre.config.skills[k][1]]
                  = LinkOf(loc.pre.config.skills[k][2])

\* the first agent is added right after an install that found no agent, and
\* has got the link of that skill
C27_Witness ==
    /\ pc = "done"
    /\ loc.op = "agent_add"
    /\ loc.res = "ok"
    /\ loc.pre.last.op = "skill_install"
    /\ Len(loc.pre.last.pre.config.agents) = 0
    /\ loc.pre.last.post = [f \in DOMAIN DiskNow |-> loc.pre[f]]
    /\ loc.pre.last.post.entry = loc.pre.last.pre.entry
    /\ entry[loc.agent][loc.pre.last.name].kind = "link"
    /\ entry[loc.agent][loc.pre.last.name].target[2] = loc.pre.last.alias

----------------------------------------------------------------------------
\* an install of a name that was not installed when it started
Installing ==
    /\ loc.op = "skill_install"
    /\ ~Has(loc.pre.config.skills, loc.names[1])

\* C28: in skill install the projection comes before the record: in every
\* state of an install in which the Skill record of the name exists, the
\* loop over the agent list read at the start has gone through every agent
\* (each one was skipped for want of a skills directory or has got the
\* link), and the handler is past its write.
C28_ProjectBeforeRecord ==
    (Installing /\ Has(config.skills, loc.names[1])) =>
        /\ pc = "done"
        /\ loc.res = "ok"
        /\ loc.agents = loc.pre.config.agents
        /\ Len(loc.agents) > 0 => loc.i = Len(loc.agents)
        /\ \A j \in 1..Len(loc.agents) :
              skillsDir[loc.agents[j]] =>
                  entry[loc.agents[j]][loc.names[1]] = Symlink(loc.sources[1])

\* the record is there after an install has gone through two agents, one
\* skipped and one linked
C28_Witness ==
    /\ Installing
    /\ Has(config.skills, loc.names[1])
    /\ Len(loc.agents) = 2
    /\ \E a \in Agents : ~skillsDir[a]
    /\ \E a \in Agents : skillsDir[a] /\ loc.pre.entry[a][loc.names[1]] = RegularFile

----------------------------------------------------------------------------
\* removeSymlink has been through <agent>/skills/<name>: what was a file or
\* a directory is still there, and a link that existsSync sees is gone
\* unless its unlink has thrown
RetractedAt(agent, name) ==
    /\ loc.pre.entry[agent][name].kind \in {"file", "dir"}
          => entry[agent][name] = loc.pre.entry[agent][name]
    /\ \/ <<name, agent>> \in loc.failed
       \/ RemoveSymlink(snapshot, entry[agent][name]) = entry[agent][name]

\* skill remove: the Skill record is gone only after the loop has been
\* through every agent of the list read at the start
SkillRecordLast ==
    ( /\ loc.op = "skill_remove"
      /\ Has(loc.pre.config.skills, loc.names[1])
      /\ ~Has(config.skills, loc.names[1]) ) =>
        /\ pc = "done"
        /\ loc.res = "ok"
        /\ loc.agents = loc.pre.config.agents
        /\ Len(loc.agents) > 0 => loc.i = Len(loc.agents)
        /\ \A j \in 1..Len(loc.agents) :
              RetractedAt(loc.agents[j], loc.names[1])

\* agent remove: the Agent record is gone only after the loop has been
\* through every skill installed at the start
AgentRecordLast ==
    ( /\ loc.op = "agent_remove"
      /\ Includes(loc.pre.config.agents, loc.agent)
      /\ ~Includes(config.agents, loc.agent) ) =>
        /\ pc = "done"
        /\ loc.res = "ok"
        /\ loc.names = Keys(loc.pre.config.skills)
        /\ Len(loc.names) > 0 => loc.k = Len(loc.names)
        /\ \A k \in 1..Len(loc.names) : RetractedAt(loc.agent, loc.names[k])

\* no skip and no warning keeps the record: a removal that has passed its
\* checks ends ok with the record deleted, unless the process is killed
RetractionNeverBlocks ==
    /\ (pc = "done" /\ loc.op = "skill_remove") =>
          /\ loc.res \in {"not_installed", "cancelled", "ok", "crashed"}
          /\ loc.res = "ok" => ~Has(config.skills, loc.names[1])
    /\ (pc = "done" /\ loc.op = "agent_remove") =>
          /\ loc.res \in {"not_found", "cancelled", "ok", "crashed"}
          /\ loc.res = "ok" => ~Includes(config.agents, loc.agent)

\* C29: removal retracts before it deletes the record: in skill remove the
\* Skill record is deleted only after retraction was attempted for every
\* configured agent, in agent remove the Agent record only after retraction
\* was attempted for every installed skill; an entry that is not a symlink
\* is skipped (and kept), the retractions after it are still made and the
\* record is still deleted.
C29_RetractBeforeDelete ==
    SkillRecordLast /\ AgentRecordLast /\ RetractionNeverBlocks

\* skill remove has deleted the record after it skipped the user's file
\* under the first agent and took away the link under the second
C29_Witness ==
    /\ pc = "done"
    /\ loc.op = "skill_remove"
    /\ loc.res = "ok"
    /\ ~Has(config.skills, loc.names[1])
    /\ Len(loc.agents) = 2
    /\ loc.pre.entry[loc.agents[1]][loc.names[1]].kind \in {"file", "dir"}
    /\ entry[loc.agents[1]][loc.names[1]] = loc.pre.entry[loc.agents[1]][loc.names[1]]
    /\ loc.pre.entry[loc.agents[2]][loc.names[1]].kind = "link"
    /\ entry[loc.agents[2]][loc.names[1]] = Missing

\* agent remove has deleted the record after it skipped the user's file at
\* one skill and took away the link of another
C29_WitnessAgent ==
    /\ pc = "done"
    /\ loc.op = "agent_remove"
    /\ loc.res = "ok"
    /\ ~Includes(config.agents, loc.agent)
    /\ Len(loc.names) = 2
    /\ loc.pre.entry[loc.agent][loc.names[1]].kind \in {"file", "dir"}
    /\ entry[loc.agent][loc.names[1]] = loc.pre.entry[loc.agent][loc.names[1]]
    /\ loc.pre.entry[loc.agent][loc.names[2]].kind = "link"
    /\ entry[loc.agent][loc.names[2]] = Missing

----------------------------------------------------------------------------
\* C30: update --all, one repository after the other, loses no write: in
\* every state of it, and when it has ended, each repository it is done
\* with has as its stored sha the identifier its refresh returned if the
\* refresh succeeded, and the sha stored at the start if it failed; so no
\* later update takes back the sha written for an earlier one.  When it has
\* ended it is done with every repository registered at its start.
C30_UpdateAllLosesNoWrite ==
    loc.op = "repo_update_all" =>
        /\ \A k \in 1..Len(loc.outcomes) :
              LET alias == loc.repos[k][1]
              IN  /\ Has(config.repos, alias)
                  /\ StoredSha(DiskNow, alias) =
                        IF loc.outcomes[k] = "failed"
                        THEN StoredSha(loc.pre, alias)
                        ELSE loc.returned[k]
        /\ (pc = "done" /\ loc.res = "ok") =>
              /\ loc.repos = loc.pre.config.repos
              /\ Len(loc.outcomes) = Len(loc.repos)
              /\ Keys(config.repos) = Keys(loc.pre.config.repos)

\* update --all has ended after it wrote a new sha for each of two
\* repositories, the two being different
C30_Witness ==
    /\ pc = "done"
    /\ loc.op = "repo_update_all"
    /\ loc.res = "ok"
    /\ loc.outcomes = <<"updated", "updated">>
    /\ loc.returned[1] # loc.returned[2]
    /\ StoredSha(DiskNow, loc.repos[1][1]) = loc.returned[1]
    /\ StoredSha(loc.pre, loc.repos[1][1]) # loc.returned[1]

\* update --all has ended after the first refresh wrote a new sha and the
\* second one failed
C30_WitnessFailed ==
    /\ pc = "done"
    /\ loc.op = "repo_update_all"
    /\ loc.res = "ok"
    /\ loc.outcomes = <<"updated", "failed">>

----------------------------------------------------------------------------
\* the two updateRepo calls have both saved
BothSaved == pc = "done" /\ loc.op = "two_updates" /\ loc.res = "ok"

\* both have loaded before either has saved
BothLoadFirst == loc.events[1][2] = "load" /\ loc.events[2][2] = "load"

\* the saves, in the order they took place
Saves == SelectSeq(loc.events, LAMBDA e : e[2] = "save")

\* the process whose save is the earlier one, and the other
EarlierSaver == loc.procs[Saves[1][1]]

LaterSaver == loc.procs[Saves[2][1]]

\* the earlier saver's sha is not in the record: it holds what it held
\* before the two updates
LostUpdate ==
    /\ StoredSha(DiskNow, EarlierSaver.alias) # EarlierSaver.sha
    /\ StoredSha(DiskNow, EarlierSaver.alias)
          = StoredSha(loc.pre, EarlierSaver.alias)

\* C31: when the two updateRepo calls interleave so that both load before
\* either saves, the record after both saves is the State found at the start
\* with the later saver's change only, and the earlier saver's change is
\* gone; when they run one at a time (the second loads after the first has
\* saved) the record has both changes, and no update is lost.
C31_LostUpdate ==
    BothSaved =>
        /\ Len(loc.events) = 4
        /\ Len(Saves) = 2
        /\ Saves[1][1] # Saves[2][1]
        /\ IF BothLoadFirst
           THEN /\ config = UpdateRepoSha(loc.pre.config, LaterSaver.alias,
                                          LaterSaver.sha)
                /\ LostUpdate
           ELSE /\ loc.events[1][1] = loc.events[2][1]
                /\ loc.events[2][2] = "save"
                /\ config = UpdateRepoSha(
                                UpdateRepoSha(loc.pre.config,
                                              loc.procs[1].alias, loc.procs[1].sha),
                                loc.procs[2].alias, loc.procs[2].sha)
                /\ \A p \in Procs :
                      StoredSha(DiskNow, loc.procs[p].alias) = loc.procs[p].sha
                /\ ~LostUpdate

\* both loaded before either saved, and the earlier saver's sha is lost
C31_Witness == BothSaved /\ BothLoadFirst /\ LostUpdate

\* the two ran one at a time and both shas are stored
C31_WitnessSequential ==
    /\ BothSaved
    /\ ~BothLoadFirst
    /\ \A p \in Procs : StoredSha(DiskNow, loc.procs[p].alias) = loc.procs[p].sha

----------------------------------------------------------------------------
\* skill remove has ended without an error
SkillRemoved == pc = "done" /\ loc.op = "skill_remove" /\ loc.res = "ok"

\* C32: after a skill remove that ended without an error no configured
\* agent has a symlink named after the skill, also where the symlink's
\* target was gone (its path deleted by a repository update, or the working
\* copy lost) when the command started.
C32_RemovesDanglingLinks ==
    SkillRemoved =>
        \A j \in 1..Len(loc.agents) :
            entry[loc.agents[j]][loc.names[1]].kind # "link"

\* the same of the symlinks whose target was there when the command started
RemovesLiveLinks ==
    SkillRemoved =>
        \A j \in 1..Len(loc.agents) :
            LET before == loc.pre.entry[loc.agents[j]][loc.names[1]]
            IN  (before.kind = "link" /\ SourceExists(loc.pre.snapshot, before.target))
                    => entry[loc.agents[j]][loc.names[1]] = Missing

\* a symlink whose target was gone is left as it was
KeepsDanglingLinks ==
    SkillRemoved =>
        \A j \in 1..Len(loc.agents) :
            LET before == loc.pre.entry[loc.agents[j]][loc.names[1]]
            IN  (before.kind = "link" /\ ~SourceExists(loc.pre.snapshot, before.target))
                    => entry[loc.agents[j]][loc.names[1]] = before

----------------------------------------------------------------------------
\* no handler is running: the last one has returned or has thrown
Ended == pc = "idle" \/ (pc = "done" /\ loc.res # "crashed")

\* C33: whenever no command is running, also after one that has ended with
\* an error partway, every symlink under the skills directory of a
\* registered agent is named after a Skill record of the State.
C33_NoOrphanLinks ==
    Ended =>
        \A j \in 1..Len(config.agents), n \in SkillNames :
            entry[config.agents[j]][n].kind = "link" => Has(config.skills, n)

\* the same as long as the last command has run into no error
NoOrphanLinksAfterSuccess ==
    AtRest =>
        \A j \in 1..Len(config.agents), n \in SkillNames :
            entry[config.agents[j]][n].kind = "link" => Has(config.skills, n)

\* an install that has thrown at its second agent has left the link it
\* made under the first and no record
OrphanAfterFailedInstall ==
    /\ pc = "done"
    /\ loc.op = "skill_install"
    /\ loc.res = "io_error"
    /\ loc.i = 2
    /\ loc.pre.entry[loc.agents[1]][loc.names[1]] = Missing
    /\ entry[loc.agents[1]][loc.names[1]] = Symlink(loc.sources[1])
    /\ ~Has(config.skills, loc.names[1])

----------------------------------------------------------------------------
\* a confirmed repo remove has ended that was typed right after a repo
\* remove of the same alias was killed
RemoveRerun ==
    /\ pc = "done"
    /\ loc.op = "repo_remove"
    /\ loc.res \notin {"cancelled", "crashed"}
    /\ loc.pre.last.op = "repo_remove"
    /\ loc.pre.last.res = "crashed"
    /\ loc.pre.last.alias = loc.alias
    /\ loc.pre.last.post = [f \in DOMAIN DiskNow |-> loc.pre[f]]

\* the names of the skills of the repository when the killed remove started
DependentNames == GetSkillsByRepo(loc.pre.last.pre.config, loc.alias)

\* nothing of the repository is left: no record, no working copy, no skill
\* record, and no link named after a dependent skill under a registered agent
RepoGone ==
    /\ loc.res = "ok"
    /\ ~Has(config.repos, loc.alias)
    /\ snapshot[loc.alias] = "absent"
    /\ Len(GetSkillsByRepo(config, loc.alias)) = 0
    /\ \A k \in 1..Len(DependentNames), j \in 1..Len(config.agents) :
          entry[config.agents[j]][DependentNames[k]].kind # "link"

\* C34: repo remove can be run again after it was killed: from the state a
\* kill leaves at any step of a confirmed repo remove (after any number of
\* dependent skills removed, after the working copy is deleted, before the
\* record is deleted), a confirmed repo remove of the same alias that is not
\* killed ends ok with no Repository record of the alias, no working copy,
\* no dependent Skill record and no dependent link.
C34_RemoveRecoverable == RemoveRerun => RepoGone

\* no dependent link had lost its target when the killed remove started
NoDanglingDependent ==
    \A k \in 1..Len(DependentNames), a \in Agents :
        LET before == loc.pre.last.pre.entry[a][DependentNames[k]]
        IN  before.kind = "link" => SourceExists(loc.pre.last.pre.snapshot, before.target)

\* the same where every dependent link had its target
RemoveRecoverableLive == (RemoveRerun /\ NoDanglingDependent) => RepoGone

\* the rerun has ended ok after a kill that came when one of two dependent
\* skills was removed and links were still there
RemoveRerunAfterPartial ==
    /\ RemoveRerun
    /\ RepoGone
    /\ Len(DependentNames) = 2
    /\ Len(GetSkillsByRepo(loc.pre.config, loc.alias)) = 1
    /\ \E a \in Agents, n \in SkillNames : loc.pre.entry[a][n].kind = "link"

\* the rerun has ended ok after a kill that came when the working copy was
\* deleted and the record was not
RemoveRerunAfterRmdir ==
    /\ RemoveRerun
    /\ RepoGone
    /\ loc.pre.snapshot[loc.alias] = "absent"
    /\ Len(DependentNames) > 0

====
